---- MODULE Spec2Model ----
(***************************************************************************)
(* Verification model of the chess server's request-brokering core:       *)
(*   - the game record and the WebSocket move handler   (server.py)       *)
(*   - the session store with its LRU caches            (SessionManager)  *)
(*   - the engine pool and its auto-scaler              (EngineHandler)   *)
(*   - ELO settlement                                   (game_operations) *)
(*   - the auto-scale / game-sweeper loop               (instance_handler)*)
(* Each subsystem has its own specification over the shared variables;    *)
(* the variables of the other subsystems stay at their initial values.    *)
(***************************************************************************)
EXTENDS Integers, Sequences, FiniteSets, TLC

VARIABLES
    now,            \* time.time(), in whole seconds
    \* ---- game record G of ACTIVE_GAMES and its WebSocket handlers
    fen,            \* game["fen"]: the position, named by the moves that led to it
    moves,          \* game["moves"]
    legal_moves,    \* game["legal_moves"], named by the position they belong to
    current_turn,   \* game["current_turn"]
    last_move_at,   \* game["last_move_at"]
    wsPc,           \* per connection: where its handler thread is in handle_ws_move
    wsReq,          \* per connection: the engine_request it submitted
    wsSent,         \* per connection: type of the last message sent to it
    \* ---- users table (ratings) and settlement
    elo,            \* users.elo of each tracked account
    eloDiff,        \* last settlement: sum of the two stored ratings after it
                    \* minus their sum before it (0 before any settlement)
    abGames,        \* games settled between the two tracked accounts
    \* ---- session store
    sessRows,       \* the sessions table: session_id -> row, or NoRow
    sessCache,      \* lru_cache of get_session: session_id -> MissRow or the cached result
    userCache,      \* lru_cache of get_user_sessions: user_id -> MissIds or the cached ids
    nextSid,        \* session ids minted so far (tokens are never minted twice)
    userName,       \* users.username of each user
    rd,             \* per reading thread: its get_session call
    pw,             \* the password-change request in progress
    \* ---- engine pool
    instances,      \* EnginePool.instances: the pooled ids, in dict (insertion) order
    instance_counter, \* EnginePool.instance_counter
    qsize,          \* per spawned instance: task_queue.qsize()
    last_used,      \* per spawned instance: EngineInstance.last_used
    poolLock,       \* EnginePool.lock: "free" or the thread holding it
    queue_full_since,  \* EnginePool.queue_full_since, NoTime for None
    queue_empty_since, \* EnginePool.queue_empty_since, NoTime for None
    should_shutdown,   \* ServerState.should_shutdown()
    ctorLeft,       \* iterations left of the spawn loop of EnginePool.__init__
    asPc,           \* the thread calling auto_scale: "idle", or where it is blocked
    sub,            \* per thread calling submit_task: where it is in the call
    \* ---- active-game registry and its sweeper
    ACTIVE_GAMES,   \* the ids in the registry, in dict (insertion) order
    gameState,      \* per game id: "new" (not created yet), "active" or "ended"
    gameLastMove,   \* per game id: its record's last_move_at
    swPc,           \* where instance_thread_handler is in its loop
    swSnap,         \* the rest of list(ACTIVE_GAMES.items()) still to examine
    games_to_remove, \* the rest of games_to_remove still to delete
    swFound,        \* the game ids this tick has put in games_to_remove
    \* ---- ServerState (its _shutdown_event is should_shutdown above)
    error_event,    \* ServerState._error_event.is_set()
    error_message,  \* ServerState._error_message
    stateLock,      \* ServerState._lock: "free" or the thread holding it
    sig,            \* per thread calling signal_error: its position and argument
    errorCalls,     \* the arguments of the signal_error calls, in lock order
    obs,            \* a thread reading has_error() and then should_shutdown()
    \* ---- matchmaking (the registry is ACTIVE_GAMES above)
    MATCHMAKING_QUEUE,   \* constants.MATCHMAKING_QUEUE: the candidates put, in order
    waiting_players,     \* matchmaking_loop's list: <<user, timestamp>> entries
    waiting_player_ids,  \* matchmaking_loop's deduplication set
    MATCHMAKING_RESULTS, \* per session: the game id stored for it, 0 for none
    gamePlayers,         \* per game id: <<player1, player2>> of its record
    mmPc,                \* where matchmaking_loop is in its iteration
    mmPair,              \* the entries popped by _create_games_from_queue
    mmValid,             \* what _validate_player_sessions returned for them
    sessionValid,        \* per player: SESSION_MANAGER.get_session finds
                         \* the player's session
    searches,            \* number of POST /home/search requests so far
    searchState,         \* per session: "none", "searching", or "cancelled"
                         \* (cancelled after its last search)
    \* ---- the end of game G: its record, connections and the users table
    gRecord,        \* "new", "registered" (in ACTIVE_GAMES) or "popped"
    recElo,         \* per colour: the "elo" field of the player's entry
    websocket,      \* per colour: the "websocket" field of the player's entry
    ws,             \* per connection: where its handler thread is, with the
                    \* arguments of its handle_game_end call
    inbox,          \* per connection: the messages sent to it, in order
    wins,           \* per account: users.wins
    losses,         \* per account: users.losses
    draws,          \* per account: users.draws
    \* ---- database failures seen by the callers of SessionManager
    raised,         \* the SessionManager operation whose sqlite3 error last
                    \* propagated into its caller, None if none did
    \* ---- the users table (src/python/database)
    users,          \* per user_id: the username of its row, None for no row
    issued,         \* per user_id: how many registrations were given it
    registrations,  \* number of successful registrations so far
    \* ---- the subprocesses started by EnginePool._spawn_instance
    running,        \* the subprocesses started and still alive, by number
    pooledProc,     \* the subprocesses held by an instance of the pool
    spawnCalls,     \* number of _spawn_instance calls so far
    spawnReturn,    \* what the last call returned: an instance id, or
                    \* NoInstance for None
    \* ---- one engine instance and its worker thread
    task_queue,     \* instance.task_queue: the tasks put and not yet taken
    wkPc,           \* where _instance_worker is: "top", "get", "process",
                    \* "finally" or "exited"
    wkTask,         \* the task it took, 0 for none
    response_queue, \* per task: the replies put on task.response_queue
    replyLog,       \* the tasks replied to, in the order of the replies
    task_done,      \* per task: the task_done() calls made for it
    nextTask,       \* the number of the next task submitted
    \* ---- draw negotiation on game G
    offerBy,        \* the colour whose offer_draw is outstanding, None if
                    \* none is (the server keeps no such record)
    drawMsgs,       \* number of draw-negotiation messages handled so far
    \* ---- the session-cleanup thread
    clPc,           \* where cleanup_sessions_loop is: "top", "cleanup",
                    \* "wait" or "exited"
    \* ---- the pool lock around the subprocess of an instance
    spPc,           \* the thread in _spawn_instance: "idle", or the
                    \* statement it is about to execute
    closePc,        \* the thread in _close_instance: "idle", or the
                    \* statement it is about to execute
    \* ---- the stdout of one engine instance and the threads reading it
    stdinReqs,      \* the requests written to the engine and not yet
                    \* answered, each named by its task
    stdoutLines,    \* the lines the engine wrote and nobody read yet, each
                    \* named by the task whose request it answers
    readers,        \* the read_line threads blocked in stdout.readline(),
                    \* each named by the task it was started for
    readResult,     \* per task: result[0] of its read_with_timeout call,
                    \* the line its thread read, 0 for None
    rtPc,           \* the worker: "idle" between tasks, "join" in
                    \* thread.join(timeout)
    rtTask,         \* the task the worker took last, 0 for none
    delivered,      \* per task: what was put on its response_queue
    \* ---- the pipes of the instance whose worker is modelled above
    stdio,          \* instance.process.stdin / stdout: "open", "closed"
                    \* (file objects closed by _close_instance) or
                    \* "broken" (the subprocess has exited)
    inPool,         \* the instance is in EnginePool.instances
    \* ---- EnginePool.shutdown()
    shutPc,         \* the thread in shutdown(): "idle", "closing" or
                    \* "returned"
    instance_ids,   \* shutdown()'s instance_ids still to close
    \* ---- the thread in handle_cancel_search
    cnPc,           \* "idle", "drain" (first loop) or "restore" (second)
    cnWho,          \* the player whose session sent the request
    temp_queue,     \* its temp_queue
    removed,        \* its removed flag
    cnBefore        \* the candidates that were on MATCHMAKING_QUEUE when
                    \* the request began

gameVars == <<fen, moves, legal_moves, current_turn, last_move_at, wsPc, wsReq, wsSent>>
eloVars == <<elo, eloDiff, abGames>>
sessVars == <<sessRows, sessCache, userCache, nextSid, userName, rd, pw>>

poolVars == <<instances, instance_counter, qsize, last_used, poolLock,
              queue_full_since, queue_empty_since, should_shutdown, ctorLeft,
              asPc, sub>>
sweepVars == <<ACTIVE_GAMES, gameState, gameLastMove, swPc, swSnap,
               games_to_remove, swFound>>
stateVars == <<error_event, error_message, stateLock, sig, errorCalls, obs>>
mmVars == <<MATCHMAKING_QUEUE, waiting_players, waiting_player_ids,
            MATCHMAKING_RESULTS, gamePlayers, mmPc, mmPair, mmValid,
            sessionValid, searches, searchState>>
endVars == <<gRecord, recElo, websocket, ws, inbox, wins, losses, draws>>
dbVars == <<raised>>
userVars == <<users, issued, registrations>>
probeVars == <<running, pooledProc, spawnCalls, spawnReturn>>
workerVars == <<task_queue, wkPc, wkTask, response_queue, replyLog,
                task_done, nextTask>>
drawVars == <<offerBy, drawMsgs>>
cleanupVars == <<clPc>>
lockVars == <<spPc, closePc>>
readVars == <<stdinReqs, stdoutLines, readers, readResult, rtPc, rtTask,
              delivered>>
pipeVars == <<stdio, inPool>>
shutVars == <<shutPc, instance_ids>>
cancelVars == <<cnPc, cnWho, temp_queue, removed, cnBefore>>
lateVars == <<lockVars, readVars, pipeVars, shutVars, cancelVars>>
oldExt == <<dbVars, userVars, probeVars, workerVars, drawVars, cleanupVars>>
extVars == <<oldExt, lateVars>>
vars == <<now, gameVars, eloVars, sessVars, poolVars, sweepVars, stateVars,
          mmVars, endVars, extVars>>

\* What the actions of one subsystem leave alone.
notGame == <<eloVars, sessVars, poolVars, sweepVars, stateVars, mmVars,
    endVars, extVars>>
notElo == <<now, gameVars, sessVars, poolVars, sweepVars, stateVars, mmVars,
    endVars, extVars>>
notSess == <<gameVars, eloVars, poolVars, sweepVars, stateVars, mmVars,
    endVars, extVars>>
notPool == <<gameVars, eloVars, sessVars, sweepVars, stateVars, mmVars,
    endVars, extVars>>
notSweep == <<gameVars, eloVars, sessVars, poolVars, stateVars, mmVars,
    endVars, extVars>>
notState == <<now, gameVars, eloVars, sessVars, sweepVars,
              instances, instance_counter, qsize, last_used, poolLock,
              queue_full_since, queue_empty_since, ctorLeft, asPc, sub,
              mmVars, endVars, extVars>>
notMm == <<gameVars, eloVars, sessVars, poolVars, stateVars,
           swPc, swSnap, games_to_remove, swFound, endVars, extVars>>
notEnd == <<now, gameVars, eloDiff, abGames, sessVars, poolVars, sweepVars,
            stateVars, mmVars, extVars>>
\* Everything outside the session store and the variables added after it.
notSessExt == <<gameVars, eloVars, poolVars, sweepVars, stateVars, mmVars,
                endVars>>
coreVars == <<now, sessVars, notSessExt>>
notDb == <<notSessExt, userVars, probeVars, workerVars, drawVars, cleanupVars,
           lateVars>>
notUsers == <<coreVars, dbVars, probeVars, workerVars, drawVars, cleanupVars,
              lateVars>>
notProbe == <<gameVars, eloVars, sessVars, sweepVars, stateVars, mmVars,
              endVars, dbVars, userVars, workerVars, drawVars, cleanupVars,
              lateVars>>
notWorker == <<coreVars, dbVars, userVars, probeVars, drawVars, cleanupVars,
               lateVars>>
notCleanup == <<notSessExt, dbVars, userVars, probeVars, workerVars, drawVars,
                lateVars>>
\* What a step of _spawn_instance or _close_instance leaves alone besides
\* the pool.
notLock == <<gameVars, eloVars, sessVars, sweepVars, stateVars, mmVars,
             endVars, oldExt, readVars, pipeVars, shutVars, cancelVars>>
\* What a step of shutdown() leaves alone besides the pool.
notShut == <<gameVars, eloVars, sessVars, sweepVars, stateVars, mmVars,
             endVars, oldExt, lockVars, readVars, pipeVars, cancelVars>>
\* What a step of handle_cancel_search leaves alone besides the queue and
\* the search state.
notCancel == <<gameVars, eloVars, sessVars, poolVars, stateVars, sweepVars,
               endVars, oldExt, lockVars, readVars, pipeVars, shutVars>>
\* What the worker's reads of its engine's stdout leave alone.
notRead == <<coreVars, oldExt, lockVars, pipeVars, shutVars, cancelVars>>
\* What the worker and its instance's pipes leave alone.
notPipes == <<coreVars, dbVars, userVars, probeVars, drawVars, cleanupVars,
              lockVars, readVars, shutVars, cancelVars>>
\* What a draw-negotiation handler leaves alone besides the game record.
notDraw == <<now, gameVars, eloVars, sessVars, poolVars, sweepVars, stateVars,
             mmVars, dbVars, userVars, probeVars, workerVars, cleanupVars,
             lateVars>>

None == "None"

Abs(x) == IF x < 0 THEN -x ELSE x

(***************************************************************************)
(* Time.  Every specification advances the clock with Tick, in steps it   *)
(* chooses, up to its own horizon.                                         *)
(***************************************************************************)
Tick(d, horizon) ==
    /\ now + d <= horizon
    /\ now' = now + d

(***************************************************************************)
(* ELO SETTLEMENT  (src/python/database/game_operations.py, server.py)     *)
(***************************************************************************)
MaxABGames == 1        \* games settled between the two tracked accounts

DefaultElo == 500
EloMin == 0
EloMax == 10000

Accounts == {"A", "B"}

\* elo_delta(winner_elo, loser_elo, 1.0) = int(32 * (1 - expected)) with
\* expected = 1 / (1 + 10 ** ((loser_elo - winner_elo) / 400)).  The result
\* depends on d = loser_elo - winner_elo only and is a step function of d:
\* WinSteps[i] is the least d at which the float computation yields i.
WinSteps == << -596, -470, -394, -338, -292, -254, -221, -190, -162, -136,
               -112, -88, -65, -43, -21, 0, 22, 44, 66, 89, 113, 137, 163,
               191, 222, 255, 293, 339, 395, 471, 597, 6503 >>

\* elo_delta(p1_elo, p2_elo, 0.5) = int(32 * (0.5 - expected)), truncated
\* toward zero: DrawUpSteps[i] is the least d = p2_elo - p1_elo yielding +i,
\* DrawDownSteps[i] the greatest d yielding -i.
DrawUpSteps == << 22, 44, 66, 89, 113, 137, 163, 191, 222, 255, 293, 339,
                  395, 471, 597, 6623 >>
DrawDownSteps == << -22, -44, -66, -89, -113, -137, -163, -191, -222, -255,
                    -293, -339, -395, -471, -597, -6382 >>

elo_delta_win(winner_elo, loser_elo) ==
    Cardinality({i \in DOMAIN WinSteps : loser_elo - winner_elo >= WinSteps[i]})

elo_delta_draw(p1_elo, p2_elo) ==
    Cardinality({i \in DOMAIN DrawUpSteps : p2_elo - p1_elo >= DrawUpSteps[i]})
    - Cardinality({i \in DOMAIN DrawDownSteps :
                      p2_elo - p1_elo <= DrawDownSteps[i]})

\* update_player_elo lines 57-58: the value is written only if it is in range.
valid_elo(new_elo) == new_elo >= EloMin /\ new_elo <= EloMax

\* handle_game_end lines 1019-1032, decisive result: the winner's row is
\* written first; the loser's row is written only if that write succeeded
\* ("and" short-circuits); a refused write raises after the fact.
\* Result: the stored ratings <<winner, loser>> afterwards.
SettleDecisive(w, l) ==
    LET delta == elo_delta_win(w, l) IN
    IF ~valid_elo(w + delta) THEN <<w, l>>
    ELSE IF ~valid_elo(l - delta) THEN <<w + delta, l>>
    ELSE <<w + delta, l - delta>>

\* handle_game_end lines 1037-1047, draw: both writes are attempted and
\* their results ignored.
SettleDraw(p1, p2) ==
    LET delta == elo_delta_draw(p1, p2) IN
    << IF valid_elo(p1 + delta) THEN p1 + delta ELSE p1,
       IF valid_elo(p2 - delta) THEN p2 - delta ELSE p2 >>

EloInit ==
    /\ elo = [u \in Accounts |-> DefaultElo]
    /\ eloDiff = 0
    /\ abGames = 0

\* A tracked account loses a game to a newly registered account (rated
\* DefaultElo, create_new_user line 157).
LoseToNewcomer(u) ==
    LET r == SettleDecisive(DefaultElo, elo[u]) IN
    /\ abGames = 0
    /\ elo' = [elo EXCEPT ![u] = r[2]]
    /\ eloDiff' = (r[1] + r[2]) - (DefaultElo + elo[u])
    /\ UNCHANGED abGames
    /\ UNCHANGED notElo

\* The two tracked accounts play each other; w wins.
DecisiveGame(w, l) ==
    LET r == SettleDecisive(elo[w], elo[l]) IN
    /\ w # l
    /\ abGames < MaxABGames
    /\ elo' = [elo EXCEPT ![w] = r[1], ![l] = r[2]]
    /\ eloDiff' = (r[1] + r[2]) - (elo[w] + elo[l])
    /\ abGames' = abGames + 1
    /\ UNCHANGED notElo

\* The two tracked accounts draw; A is player1.
DrawGame ==
    LET r == SettleDraw(elo["A"], elo["B"]) IN
    /\ abGames < MaxABGames
    /\ elo' = [elo EXCEPT !["A"] = r[1], !["B"] = r[2]]
    /\ eloDiff' = (r[1] + r[2]) - (elo["A"] + elo["B"])
    /\ abGames' = abGames + 1
    /\ UNCHANGED notElo

EloNext ==
    \/ \E u \in Accounts : LoseToNewcomer(u)
    \/ \E w, l \in Accounts : DecisiveGame(w, l)
    \/ DrawGame

(***************************************************************************)
(* SESSION STORE  (src/python/utils/SessionManager.py)                     *)
(***************************************************************************)
MaxSessions == 3       \* sessions created in one run
SessionTimeout == 1    \* session_timeout, in seconds
SessHorizon == 3       \* clock horizon of the session specifications

Sids == 1..MaxSessions
UserIds == {1, 2}
\* User 1 can be renamed; user 2 keeps its name.
NamesOf(u) == IF u = 1 THEN {"alice", "alicia"} ELSE {"bob"}
Readers == {"r1"}

Row(u, name, t) == [user_id |-> u, username |-> name, last_active |-> t]

\* "No row" / a NoRow result, and "not in the cache", as rows no session has.
NoRow == Row(0, "", 0)
MissRow == Row(-1, "", 0)
MissIds == {-1}

\* _clear_caches lines 352-353.
NoSessCache == [sid \in Sids |-> MissRow]
NoUserCache == [u \in UserIds |-> MissIds]

\* The expiry test of _get_session_impl line 177.
Expired(row) == now - row.last_active > SessionTimeout

IdleRead == [pc |-> "idle", sid |-> 0, row |-> NoRow, res |-> NoRow]
IdlePw == [pc |-> "idle", user |-> 0, sid |-> 0, todo |-> {}]

SessInit ==
    /\ sessRows = [sid \in Sids |-> NoRow]
    /\ sessCache = NoSessCache
    /\ userCache = NoUserCache
    /\ nextSid = 1
    /\ userName = [u \in UserIds |-> IF u = 1 THEN "alice" ELSE "bob"]
    /\ rd = [t \in Readers |-> IdleRead]
    /\ pw = IdlePw

\* create_session lines 144-156 (session_login, server.py:1091-1097, passes
\* the user's current username).
CreateSession(u) ==
    /\ nextSid <= MaxSessions
    /\ sessRows' = [sessRows EXCEPT ![nextSid] = Row(u, userName[u], now)]
    /\ nextSid' = nextSid + 1
    /\ sessCache' = NoSessCache
    /\ userCache' = NoUserCache
    /\ UNCHANGED <<now, userName, rd, pw>>
    /\ UNCHANGED notSess

\* get_session, cache hit (lru_cache, __init__ line 94): the cached result is
\* returned; _get_session_impl does not run.
GetHit(t, sid) ==
    /\ rd[t].pc = "idle"
    /\ sid < nextSid
    /\ sessCache[sid] # MissRow
    /\ rd' = [rd EXCEPT ![t] = [pc |-> "idle", sid |-> sid, row |-> NoRow,
                                res |-> sessCache[sid]]]
    /\ UNCHANGED <<now, sessRows, sessCache, userCache, nextSid, userName, pw>>
    /\ UNCHANGED notSess

\* get_session, cache miss: _get_session_impl lines 165-170 reads the row.
GetRead(t, sid) ==
    /\ rd[t].pc = "idle"
    /\ sid < nextSid
    /\ sessCache[sid] = MissRow
    /\ rd' = [rd EXCEPT ![t] = [pc |-> "read", sid |-> sid,
                                row |-> sessRows[sid], res |-> NoRow]]
    /\ UNCHANGED <<now, sessRows, sessCache, userCache, nextSid, userName, pw>>
    /\ UNCHANGED notSess

\* _get_session_impl lines 171-186 on the row read, then lru_cache stores what
\* it returned.  An expired row is deleted through delete_session (lines
\* 251-257), which clears the caches only if a row was deleted.
GetFinish(t) ==
    LET sid == rd[t].sid
        row == rd[t].row
        gone == row = NoRow
        old == ~gone /\ Expired(row)
        res == IF gone \/ old THEN NoRow ELSE row
        deleted == old /\ sessRows[sid] # NoRow
    IN
    /\ rd[t].pc = "read"
    /\ rd' = [rd EXCEPT ![t] = [pc |-> "idle", sid |-> sid, row |-> NoRow,
                                res |-> res]]
    /\ sessRows' = IF old THEN [sessRows EXCEPT ![sid] = NoRow] ELSE sessRows
    /\ sessCache' = [(IF deleted THEN NoSessCache ELSE sessCache)
                        EXCEPT ![sid] = res]
    /\ userCache' = IF deleted THEN NoUserCache ELSE userCache
    /\ UNCHANGED <<now, nextSid, userName, pw>>
    /\ UNCHANGED notSess

\* update_activity lines 201-211, on an existing row.
UpdateActivity(sid) ==
    /\ sessRows[sid] # NoRow
    /\ sessRows' = [sessRows EXCEPT ![sid].last_active = now]
    /\ sessCache' = NoSessCache
    /\ userCache' = NoUserCache
    /\ UNCHANGED <<now, nextSid, userName, rd, pw>>
    /\ UNCHANGED notSess

\* delete_session lines 251-257, on an existing row (handle_logout).
DeleteSession(sid) ==
    /\ sessRows[sid] # NoRow
    /\ sessRows' = [sessRows EXCEPT ![sid] = NoRow]
    /\ sessCache' = NoSessCache
    /\ userCache' = NoUserCache
    /\ UNCHANGED <<now, nextSid, userName, rd, pw>>
    /\ UNCHANGED notSess

\* handle_change_username lines 349-352: update_username on the users table,
\* then update_username_in_sessions lines 228-239.
Rename(u, new) ==
    LET hit == {sid \in Sids : sessRows[sid] # NoRow /\ sessRows[sid].user_id = u}
    IN
    /\ new # userName[u]
    /\ userName' = [userName EXCEPT ![u] = new]
    /\ sessRows' = [sid \in Sids |->
                      IF sid \in hit
                      THEN [sessRows[sid] EXCEPT !.username = new]
                      ELSE sessRows[sid]]
    /\ sessCache' = IF hit # {} THEN NoSessCache ELSE sessCache
    /\ userCache' = IF hit # {} THEN NoUserCache ELSE userCache
    /\ UNCHANGED <<now, nextSid, rd, pw>>
    /\ UNCHANGED notSess

\* cleanup_expired_sessions lines 274-286.
CleanupExpired ==
    LET cutoff_time == now - SessionTimeout
        hit == {sid \in Sids : sessRows[sid] # NoRow
                                /\ sessRows[sid].last_active < cutoff_time}
    IN
    /\ hit # {}
    /\ sessRows' = [sid \in Sids |-> IF sid \in hit THEN NoRow ELSE sessRows[sid]]
    /\ sessCache' = NoSessCache
    /\ userCache' = NoUserCache
    /\ UNCHANGED <<now, nextSid, userName, rd, pw>>
    /\ UNCHANGED notSess

\* check_auth (server.py:81-104) of the password-change request sent with
\* session cookie sid: get_session resolves (cached result, or an unexpired
\* row), then update_activity(sid).
PwStart(sid) ==
    LET res == IF sessCache[sid] # MissRow THEN sessCache[sid]
               ELSE IF sessRows[sid] # NoRow /\ ~Expired(sessRows[sid])
                    THEN sessRows[sid] ELSE NoRow
        stored == sessRows[sid] # NoRow
    IN
    /\ pw.pc = "idle"
    /\ sid < nextSid
    /\ res # NoRow
    /\ pw' = [pc |-> "auth", user |-> res.user_id, sid |-> sid, todo |-> {}]
    /\ sessRows' = IF stored THEN [sessRows EXCEPT ![sid].last_active = now]
                   ELSE sessRows
    /\ sessCache' = IF stored THEN NoSessCache ELSE sessCache
    /\ userCache' = IF stored THEN NoUserCache ELSE userCache
    /\ UNCHANGED <<now, nextSid, userName, rd>>
    /\ UNCHANGED notSess

\* _get_user_sessions_impl lines 313-320.
get_user_sessions_impl(user_id) ==
    LET cutoff_time == now - SessionTimeout IN
    {sid \in Sids : /\ sessRows[sid] # NoRow
                    /\ sessRows[sid].user_id = user_id
                    /\ sessRows[sid].last_active >= cutoff_time}

\* handle_change_password line 413: get_user_sessions through its lru_cache
\* (update_password, line 410, has succeeded).
PwSnapshot ==
    LET ids == IF userCache[pw.user] # MissIds THEN userCache[pw.user]
               ELSE get_user_sessions_impl(pw.user)
    IN
    /\ pw.pc = "auth"
    /\ pw' = [pw EXCEPT !.pc = "loop", !.todo = ids \ {pw.sid}]
    /\ userCache' = [userCache EXCEPT ![pw.user] = ids]
    /\ UNCHANGED <<now, sessRows, sessCache, nextSid, userName, rd>>
    /\ UNCHANGED notSess

\* handle_change_password lines 413-415: one iteration of the loop,
\* delete_session (lines 251-257) of the next other session id.
PwDeleteOne ==
    LET sid == CHOOSE x \in pw.todo : \A y \in pw.todo : x <= y
        stored == sessRows[sid] # NoRow
    IN
    /\ pw.pc = "loop"
    /\ pw.todo # {}
    /\ pw' = [pw EXCEPT !.todo = pw.todo \ {sid}]
    /\ sessRows' = [sessRows EXCEPT ![sid] = NoRow]
    /\ sessCache' = IF stored THEN NoSessCache ELSE sessCache
    /\ userCache' = IF stored THEN NoUserCache ELSE userCache
    /\ UNCHANGED <<now, nextSid, userName, rd>>
    /\ UNCHANGED notSess

\* handle_change_password lines 417-425: the loop is over; update_activity of
\* the requesting session, then the 200 response.
PwFinish ==
    LET stored == sessRows[pw.sid] # NoRow IN
    /\ pw.pc = "loop"
    /\ pw.todo = {}
    /\ pw' = [pw EXCEPT !.pc = "done"]
    /\ sessRows' = IF stored THEN [sessRows EXCEPT ![pw.sid].last_active = now]
                   ELSE sessRows
    /\ sessCache' = IF stored THEN NoSessCache ELSE sessCache
    /\ userCache' = IF stored THEN NoUserCache ELSE userCache
    /\ UNCHANGED <<now, nextSid, userName, rd>>
    /\ UNCHANGED notSess

\* The next request may change the password again.
PwReturn ==
    /\ pw.pc = "done"
    /\ pw' = IdlePw
    /\ UNCHANGED <<now, sessRows, sessCache, userCache, nextSid, userName, rd>>
    /\ UNCHANGED notSess

SessTick ==
    /\ Tick(1, SessHorizon)
    /\ UNCHANGED sessVars
    /\ UNCHANGED notSess

SessNext ==
    \/ \E u \in UserIds : CreateSession(u)
    \/ \E t \in Readers, sid \in Sids : GetHit(t, sid)
    \/ \E t \in Readers, sid \in Sids : GetRead(t, sid)
    \/ \E t \in Readers : GetFinish(t)
    \/ \E sid \in Sids : UpdateActivity(sid)
    \/ \E sid \in Sids : DeleteSession(sid)
    \/ \E u \in UserIds : \E new \in NamesOf(u) : Rename(u, new)
    \/ CleanupExpired
    \/ SessTick

\* ---- database failures (src/python/utils/SessionManager.py) ----
\* The operations of SessionManager that run a statement on the shared
\* cursor.
SessionOps == {"create_session", "get_session", "update_activity",
               "delete_session", "update_username_in_sessions",
               "logout_all_user_sessions", "cleanup_expired_sessions"}

DbInit == raised = None

\* The statement run by operation op raises sqlite3.Error (locked database,
\* I/O error, cursor used by two threads at once).  No method of the class
\* has an exception handler: execute raises before any row changes and before
\* _clear_caches is reached, and the error leaves the method.  get_session
\* runs a statement only on a cache miss (lru_cache, __init__ line 94).
DbFailure(op) ==
    /\ op = "get_session" => \E sid \in Sids : sessCache[sid] = MissRow
    /\ raised' = op
    /\ UNCHANGED <<now, sessVars>>
    /\ UNCHANGED notDb

\* The caller goes on to its next request.
DbFailureSeen ==
    /\ raised # None
    /\ raised' = None
    /\ UNCHANGED <<now, sessVars>>
    /\ UNCHANGED notDb

\* The writes of the session store, with failing statements.
SessDbNext ==
    \/ \E u \in UserIds : CreateSession(u)
    \/ \E sid \in Sids : UpdateActivity(sid)
    \/ \E sid \in Sids : DeleteSession(sid)
    \/ CleanupExpired
    \/ SessTick
    \/ \E op \in SessionOps : DbFailure(op)
    \/ DbFailureSeen

\* ---- the users table (src/python/database) ----
MaxUserId == 4         \* rowids the model lets the table reach
MaxRegistrations == 5  \* successful registrations before the model stops
Usernames == {"ann", "ben", "cat"}
RowIds == 1..MaxUserId

\* init_database: an empty users table.
UsersInit ==
    /\ users = [id \in RowIds |-> None]
    /\ issued = [id \in RowIds |-> 0]
    /\ registrations = 0

Stored == {id \in RowIds : users[id] # None}

Max(S) == CHOOSE x \in S : \A y \in S : y <= x

\* The rowid SQLite gives an INSERT that names no user_id.  The column is
\* declared INTEGER PRIMARY KEY without AUTOINCREMENT (connection.py line
\* 58), so it is the rowid: one more than the largest rowid in the table,
\* 1 for an empty table.
next_rowid == IF Stored = {} THEN 1 ELSE Max(Stored) + 1

\* create_new_user lines 144-170 with a free username: the INSERT and
\* lastrowid.
create_new_user(name) ==
    /\ registrations < MaxRegistrations
    /\ next_rowid \in RowIds
    /\ \A id \in Stored : users[id] # name
    /\ users' = [users EXCEPT ![next_rowid] = name]
    /\ issued' = [issued EXCEPT ![next_rowid] = @ + 1]
    /\ registrations' = registrations + 1
    /\ UNCHANGED notUsers

\* create_new_user lines 146-151: the username is taken, 409.
create_new_user_taken(name) ==
    /\ \E id \in Stored : users[id] = name
    /\ UNCHANGED userVars
    /\ UNCHANGED notUsers

\* delete_user_account lines 331-339 of a stored user.
delete_user_account(id) ==
    /\ users[id] # None
    /\ users' = [users EXCEPT ![id] = None]
    /\ UNCHANGED <<issued, registrations>>
    /\ UNCHANGED notUsers

UsersNext ==
    \/ \E name \in Usernames : create_new_user(name)
    \/ \E name \in Usernames : create_new_user_taken(name)
    \/ \E id \in RowIds : delete_user_account(id)

\* Logins and password changes only.
PwNext ==
    \/ \E u \in UserIds : CreateSession(u)
    \/ \E sid \in Sids : PwStart(sid)
    \/ PwSnapshot
    \/ PwDeleteOne
    \/ PwFinish
    \/ PwReturn
    \/ SessTick

(***************************************************************************)
(* GAME RECORD AND MOVE HANDLING  (src/python/server.py)                   *)
(***************************************************************************)
MaxMoves == 3          \* moves accepted before the model stops submitting
GameHorizon == 2       \* clock horizon of the game specification

Colors == {"white", "black"}
MoveStrs == {"e2e4", "e7e5"}

\* WebSocket connections attached to G.  on_ws_connected (server.py:612-646)
\* attaches any connection whose session cookie is one of the two players':
\* the white player's session is open on two connections (two tabs).
Conns == {"w1", "w2", "b1"}

\* handle_ws_move lines 806-810: the sender's colour, from its session id.
player_color(c) == IF c \in {"w1", "w2"} THEN "white" ELSE "black"

Opposite(col) == IF col = "white" THEN "black" ELSE "white"

\* The position the engine returns for a valid move: the request's position
\* with the move applied.
EngineFen(req) == Append(req.fen, req.move)

\* The connection held in each player's "websocket" slot: on_ws_connected
\* (server.py:639-646) overwrites the slot, so white's slot holds the
\* connection that attached last.
Slot(col) == IF col = "white" THEN "w2" ELSE "b1"

GameInit ==
    /\ fen = <<>>
    /\ moves = <<>>
    /\ legal_moves = <<>>
    /\ current_turn = "white"
    /\ last_move_at = 0
    /\ wsPc = [c \in Conns |-> "idle"]
    /\ wsReq = [c \in Conns |-> None]
    /\ wsSent = [c \in Conns |-> None]

\* handle_ws_move lines 812-816: the turn check fails.
MoveNotYourTurn(c) ==
    /\ wsPc[c] = "idle"
    /\ current_turn # player_color(c)
    /\ wsSent' = [wsSent EXCEPT ![c] = "error"]
    /\ UNCHANGED <<now, fen, moves, legal_moves, current_turn, last_move_at, wsPc, wsReq>>
    /\ UNCHANGED notGame

\* handle_ws_move lines 812-828: the turn check passes and the request, built
\* from the position read now, is submitted; the thread blocks in submit_task.
MoveSubmit(c, m) ==
    /\ wsPc[c] = "idle"
    /\ Len(moves) < MaxMoves
    /\ current_turn = player_color(c)
    /\ wsPc' = [wsPc EXCEPT ![c] = "engine"]
    /\ wsReq' = [wsReq EXCEPT ![c] =
                    [fen |-> fen, move |-> m,
                     \* the state the submission was received in
                     pre_turn |-> current_turn, pre_len |-> Len(moves)]]
    /\ UNCHANGED <<now, fen, moves, legal_moves, current_turn, last_move_at, wsSent>>
    /\ UNCHANGED notGame

\* The possible_moves the engine returns with a valid move: those of the
\* position it returns.
EnginePossibleMoves(req) == EngineFen(req)

\* handle_ws_move lines 839-846: the update of G on a "valid" reply.
ApplyValidMove(c) ==
    /\ fen' = EngineFen(wsReq[c])
    /\ moves' = Append(moves, wsReq[c].move)
    /\ legal_moves' = EnginePossibleMoves(wsReq[c])
    /\ current_turn' = Opposite(current_turn)
    /\ last_move_at' = now

\* handle_ws_move lines 832-872: submit_task returned a "valid" reply.
MoveAccepted(c) ==
    /\ wsPc[c] = "engine"
    /\ ApplyValidMove(c)
    /\ wsPc' = [wsPc EXCEPT ![c] = "idle"]
    /\ wsReq' = [wsReq EXCEPT ![c] = None]
    \* lines 869-872: move_update goes to the connection in each player slot
    /\ wsSent' = [x \in Conns |->
                    IF x \in {Slot("white"), Slot("black")}
                    THEN "move_update" ELSE wsSent[x]]
    /\ UNCHANGED now
    /\ UNCHANGED notGame

\* Mutant of MoveRejected: G is updated before the reply's message is tested.
MoveRejectedAfterUpdate(c) ==
    /\ wsPc[c] = "engine"
    /\ ApplyValidMove(c)
    /\ wsPc' = [wsPc EXCEPT ![c] = "idle"]
    /\ wsReq' = [wsReq EXCEPT ![c] = None]
    /\ wsSent' = [wsSent EXCEPT ![c] = "error"]
    /\ UNCHANGED now
    /\ UNCHANGED notGame

\* handle_ws_move lines 832-833, 873-888: None raises InstanceInoperable, which
\* the handler catches; another message is answered directly.  Both send error.
MoveRejected(c) ==
    /\ wsPc[c] = "engine"
    /\ wsPc' = [wsPc EXCEPT ![c] = "idle"]
    /\ wsReq' = [wsReq EXCEPT ![c] = None]
    /\ wsSent' = [wsSent EXCEPT ![c] = "error"]
    /\ UNCHANGED <<now, fen, moves, legal_moves, current_turn, last_move_at>>
    /\ UNCHANGED notGame

GameTick ==
    /\ Tick(1, GameHorizon)
    /\ UNCHANGED gameVars
    /\ UNCHANGED notGame

GameNext ==
    \/ \E c \in Conns : MoveNotYourTurn(c)
    \/ \E c \in Conns, m \in MoveStrs : MoveSubmit(c, m)
    \/ \E c \in Conns : MoveAccepted(c)
    \/ \E c \in Conns : MoveRejected(c)
    \/ GameTick

(***************************************************************************)
(* ENGINE POOL  (src/python/utils/EngineHandler.py)                        *)
(***************************************************************************)
MinInstances == 2      \* min_instances
MaxInstances == 3      \* max_instances
QueueSize == 2         \* queue_size
MaxIds == 4            \* instance ids handed out in one run
PoolHorizon == 12      \* clock horizon of the pool specifications

InstanceIds == 0..(MaxIds - 1)
Submitters == {"s1", "s2"}
\* The one submitting thread of the driven specification.
DrivenSubmitters == {"s1"}

\* queue_full_since / queue_empty_since is None.
NoTime == -1

\* auto_scale lines 497 and 509: the sustain periods, in seconds.
ScaleUpAfter == 5
ScaleDownAfter == 10

\* The intervals between two calls of the clock-reading threads.
PoolSteps == {5, 6}

IdleSub == [pc |-> "idle", seen |-> <<>>, best |-> -1, bestq |-> -1]

Pooled == {instances[i] : i \in 1..Len(instances)}

PoolInit ==
    /\ instances = <<>>
    /\ instance_counter = 0
    /\ qsize = [i \in InstanceIds |-> 0]
    /\ last_used = [i \in InstanceIds |-> 0]
    /\ poolLock = "free"
    /\ queue_full_since = NoTime
    /\ queue_empty_since = NoTime
    /\ should_shutdown = FALSE
    /\ ctorLeft = MinInstances
    /\ asPc = "idle"
    /\ sub = [s \in Submitters |-> IdleSub]

\* _spawn_instance lines 169-241, the lock taken and released within the
\* step.  probe_ok: the subprocess started and answered the ping with
\* message "valid"; otherwise an exception is caught at line 238.
spawn_instance(probe_ok) ==
    IF Len(instances) >= MaxInstances \/ ~probe_ok
    THEN UNCHANGED <<instances, instance_counter, qsize, last_used>>
    ELSE /\ instances' = Append(instances, instance_counter)
         /\ instance_counter' = instance_counter + 1
         /\ qsize' = [qsize EXCEPT ![instance_counter] = 0]
         /\ last_used' = [last_used EXCEPT ![instance_counter] = now]

\* __init__ lines 151-152: one iteration of the spawn loop.
CtorSpawn(probe_ok) ==
    /\ ctorLeft > 0
    /\ spawn_instance(probe_ok)
    /\ ctorLeft' = ctorLeft - 1
    /\ UNCHANGED <<now, poolLock, queue_full_since, queue_empty_since,
                   should_shutdown, asPc, sub>>
    /\ UNCHANGED notPool

\* _spawn_instance called on the constructed pool by a driver thread.
SpawnDirect(probe_ok) ==
    /\ ctorLeft = 0
    /\ poolLock = "free"
    /\ instance_counter < MaxIds
    /\ spawn_instance(probe_ok)
    /\ UNCHANGED <<now, poolLock, queue_full_since, queue_empty_since,
                   should_shutdown, ctorLeft, asPc, sub>>
    /\ UNCHANGED notPool

\* ---- the spawn probe ----
MaxSpawns == 5         \* _spawn_instance calls in one run
NoInstance == -1       \* _spawn_instance returned None

\* What can happen between Popen (line 175) and the test of the reply
\* (line 199): Popen raises; a pipe is missing (line 185); the write or flush
\* of the ping raises (lines 192-193); readline returns "" at end of file
\* (line 197); json.loads raises (line 200); the reply has another message
\* (line 201); the reply has message "valid".
ProbeOutcomes == {"popen_error", "no_pipes", "pipe_error", "eof",
                  "unparsable", "other", "valid"}

\* The outcomes after which the subprocess started at line 175 is alive: it
\* answered the ping with a line.  (After the others it did not start, or
\* closed its end of a pipe.)
AliveAfter == {"unparsable", "other", "valid"}

ProbeInit ==
    /\ running = {}
    /\ pooledProc = {}
    /\ spawnCalls = 0
    /\ spawnReturn = NoInstance

\* One call of _spawn_instance, lines 169-241, by the constructor's loop
\* (lines 151-152) while it runs and by auto_scale afterwards.  Every
\* exception is caught at line 238, which prints and returns None; the
\* handler does not touch the subprocess.
SpawnAttempt(outcome) ==
    LET p == spawnCalls + 1
        full == Len(instances) >= MaxInstances
    IN
    /\ spawnCalls < MaxSpawns
    /\ poolLock = "free"
    /\ spawnCalls' = p
    /\ spawn_instance(outcome = "valid")
    /\ running' = IF ~full /\ outcome \in AliveAfter
                  THEN running \cup {p} ELSE running
    /\ pooledProc' = IF ~full /\ outcome = "valid"
                     THEN pooledProc \cup {p} ELSE pooledProc
    /\ spawnReturn' = IF ~full /\ outcome = "valid"
                      THEN instance_counter ELSE NoInstance
    /\ ctorLeft' = IF ctorLeft > 0 THEN ctorLeft - 1 ELSE 0
    /\ UNCHANGED <<now, poolLock, queue_full_since, queue_empty_since,
                   should_shutdown, asPc, sub>>
    /\ UNCHANGED notProbe

ProbeNext ==
    \E outcome \in ProbeOutcomes : SpawnAttempt(outcome)

\* Mutant of ScanStep: "<=" for "<", which keeps the last smallest.
ScanStepKeepLast(s, seen, best, bestq) ==
    LET id == instances[Len(seen) + 1]
        q == qsize[id]
        better == best = -1 \/ q <= bestq
        seen2 == Append(seen, q)
        last == Len(seen2) = Len(instances)
    IN
    /\ sub' = [sub EXCEPT ![s] =
                 [pc |-> IF last THEN "put" ELSE "scan",
                  seen |-> seen2,
                  best |-> IF better THEN id ELSE best,
                  bestq |-> IF better THEN q ELSE bestq]]
    /\ poolLock' = IF last THEN "free" ELSE s

\* submit_task lines 432-439: min() reads the next instance's qsize and keeps
\* the first smallest; after the last instance the lock is released and the
\* thread goes on to put its task on the instance kept.
ScanStep(s, seen, best, bestq) ==
    LET id == instances[Len(seen) + 1]
        q == qsize[id]
        better == best = -1 \/ q < bestq
        seen2 == Append(seen, q)
        last == Len(seen2) = Len(instances)
    IN
    /\ sub' = [sub EXCEPT ![s] =
                 [pc |-> IF last THEN "put" ELSE "scan",
                  seen |-> seen2,
                  best |-> IF better THEN id ELSE best,
                  bestq |-> IF better THEN q ELSE bestq]]
    /\ poolLock' = IF last THEN "free" ELSE s

\* submit_task lines 423-432: a thread calls submit_task, builds its task
\* and arrives at "with self.lock:".
SubmitCall(s) ==
    /\ ctorLeft = 0
    /\ sub[s].pc = "idle"
    /\ sub' = [sub EXCEPT ![s].pc = "lock"]
    /\ UNCHANGED <<now, instances, instance_counter, qsize, last_used, poolLock,
                   queue_full_since, queue_empty_since, should_shutdown,
                   ctorLeft, asPc>>
    /\ UNCHANGED notPool

\* submit_task lines 432-434: the lock is acquired, the pool is empty, None.
SubmitEmpty(s) ==
    /\ sub[s].pc = "lock"
    /\ poolLock = "free"
    /\ instances = <<>>
    /\ sub' = [sub EXCEPT ![s] = IdleSub]
    /\ UNCHANGED <<now, instances, instance_counter, qsize, last_used, poolLock,
                   queue_full_since, queue_empty_since, should_shutdown,
                   ctorLeft, asPc>>
    /\ UNCHANGED notPool

\* submit_task lines 432-439: the lock is acquired, the pool is not empty,
\* min() reads the first qsize.
SubmitBegin(s) ==
    /\ sub[s].pc = "lock"
    /\ poolLock = "free"
    /\ instances # <<>>
    /\ ScanStep(s, <<>>, -1, -1)
    /\ UNCHANGED <<now, instances, instance_counter, qsize, last_used,
                   queue_full_since, queue_empty_since, should_shutdown,
                   ctorLeft, asPc>>
    /\ UNCHANGED notPool

SubmitScan(s) ==
    /\ sub[s].pc = "scan"
    /\ ScanStep(s, sub[s].seen, sub[s].best, sub[s].bestq)
    /\ UNCHANGED <<now, instances, instance_counter, qsize, last_used,
                   queue_full_since, queue_empty_since, should_shutdown,
                   ctorLeft, asPc>>
    /\ UNCHANGED notPool

\* submit_task lines 443-452: the put succeeds within its 0.5 s; the call
\* then waits at most its timeout for the reply and returns.
SubmitPut(s) ==
    /\ sub[s].pc = "put"
    /\ qsize[sub[s].best] < QueueSize
    /\ qsize' = [qsize EXCEPT ![sub[s].best] = @ + 1]
    /\ sub' = [sub EXCEPT ![s] = IdleSub]
    /\ UNCHANGED <<now, instances, instance_counter, last_used, poolLock,
                   queue_full_since, queue_empty_since, should_shutdown,
                   ctorLeft, asPc>>
    /\ UNCHANGED notPool

\* submit_task lines 443, 454-456: the queue stays full; queue.Full, None.
SubmitFull(s) ==
    /\ sub[s].pc = "put"
    /\ qsize[sub[s].best] >= QueueSize
    /\ sub' = [sub EXCEPT ![s] = IdleSub]
    /\ UNCHANGED <<now, instances, instance_counter, qsize, last_used, poolLock,
                   queue_full_since, queue_empty_since, should_shutdown,
                   ctorLeft, asPc>>
    /\ UNCHANGED notPool

\* _instance_worker lines 294-306: one iteration that finds a task.
WorkerGet(id) ==
    /\ id < instance_counter
    /\ ~should_shutdown
    /\ qsize[id] > 0
    /\ qsize' = [qsize EXCEPT ![id] = @ - 1]
    /\ last_used' = [last_used EXCEPT ![id] = now]
    /\ UNCHANGED <<now, instances, instance_counter, poolLock,
                   queue_full_since, queue_empty_since, should_shutdown,
                   ctorLeft, asPc, sub>>
    /\ UNCHANGED notPool

\* auto_scale lines 481-485.
total_queue_size ==
    LET RECURSIVE Sum(_)
        Sum(i) == IF i = 0 THEN 0 ELSE qsize[instances[i]] + Sum(i - 1)
    IN Sum(Len(instances))

\* auto_scale lines 488-489: total >= queue_count * (queue_size * 0.9).
all_full == 10 * total_queue_size >= Len(instances) * QueueSize * 9
all_empty == total_queue_size = 0

\* auto_scale lines 511-513: min() over the keys keeps the first smallest.
oldest_id ==
    LET i == CHOOSE i \in 1..Len(instances) :
                 /\ \A j \in 1..Len(instances) :
                        last_used[instances[i]] <= last_used[instances[j]]
                 /\ \A j \in 1..(i - 1) :
                        last_used[instances[j]] > last_used[instances[i]]
    IN instances[i]

\* auto_scale lines 494-497 and 506-509: the conditions of the two branches
\* that act.
scale_up_due ==
    /\ all_full
    /\ queue_full_since # NoTime
    /\ now - queue_full_since > ScaleUpAfter
scale_down_due ==
    /\ all_empty
    /\ Len(instances) > MinInstances
    /\ queue_empty_since # NoTime
    /\ now - queue_empty_since > ScaleDownAfter

\* auto_scale lines 474-518, called on the constructed pool.  The lock is
\* held from line 474 on.  _spawn_instance (lines 477, 500) and
\* _close_instance (line 515) start with "with self.lock:" on the same
\* threading.Lock, which is not reentrant: the calling thread waits there
\* for the lock it holds.
AutoScale ==
    /\ ctorLeft = 0
    /\ asPc = "idle"
    /\ poolLock = "free"
    /\ IF instances = <<>>
       THEN /\ asPc' = "spawn"
            /\ poolLock' = "auto_scale"
            /\ UNCHANGED <<queue_full_since, queue_empty_since>>
       ELSE IF scale_up_due /\ Len(instances) < MaxInstances
       THEN /\ asPc' = "spawn"
            /\ poolLock' = "auto_scale"
            /\ UNCHANGED <<queue_full_since, queue_empty_since>>
       ELSE /\ queue_full_since' =
                  IF ~all_full \/ scale_up_due THEN NoTime
                  ELSE IF queue_full_since = NoTime THEN now
                  ELSE queue_full_since
            /\ IF scale_down_due
               THEN /\ asPc' = "close"
                    /\ poolLock' = "auto_scale"
                    /\ UNCHANGED queue_empty_since
               ELSE /\ queue_empty_since' =
                          IF ~(all_empty /\ Len(instances) > MinInstances)
                          THEN NoTime
                          ELSE IF queue_empty_since = NoTime THEN now
                          ELSE queue_empty_since
                    /\ UNCHANGED <<asPc, poolLock>>
    /\ UNCHANGED <<now, instances, instance_counter, qsize, last_used,
                   should_shutdown, ctorLeft, sub>>
    /\ UNCHANGED notPool

\* ServerState.signal_shutdown.
SignalShutdown ==
    /\ ctorLeft = 0
    /\ ~should_shutdown
    /\ should_shutdown' = TRUE
    /\ UNCHANGED <<now, instances, instance_counter, qsize, last_used, poolLock,
                   queue_full_since, queue_empty_since, ctorLeft, asPc, sub>>
    /\ UNCHANGED notPool

\* _instance_worker lines 294, 361-362: the worker of a pooled instance sees
\* the latch, leaves its loop and calls _close_instance (lines 372-375).
WorkerExit(id) ==
    /\ should_shutdown
    /\ id \in Pooled
    /\ poolLock = "free"
    /\ instances' = SelectSeq(instances, LAMBDA x : x # id)
    /\ UNCHANGED <<now, instance_counter, qsize, last_used, poolLock,
                   queue_full_since, queue_empty_since, should_shutdown,
                   ctorLeft, asPc, sub>>
    /\ UNCHANGED notPool

PoolTick ==
    /\ ctorLeft = 0
    /\ \E d \in PoolSteps : Tick(d, PoolHorizon)
    /\ UNCHANGED poolVars
    /\ UNCHANGED notPool

\* The pool as the server uses it: constructed, then submit_task from the
\* handler threads and auto_scale from a monitoring thread.
PoolNext ==
    \/ \E ok \in BOOLEAN : CtorSpawn(ok)
    \/ \E s \in Submitters : SubmitCall(s)
    \/ \E s \in Submitters : SubmitEmpty(s)
    \/ \E s \in Submitters : SubmitBegin(s)
    \/ \E s \in Submitters : SubmitScan(s)
    \/ \E s \in Submitters : SubmitPut(s)
    \/ \E s \in Submitters : SubmitFull(s)
    \/ \E id \in InstanceIds : WorkerGet(id)
    \/ AutoScale
    \/ SignalShutdown
    \/ \E id \in InstanceIds : WorkerExit(id)
    \/ PoolTick

\* The pool under a driver that also calls _spawn_instance itself, which is
\* the only way for a pool to hold more than min_instances instances.
PoolDrivenNext ==
    \/ \E ok \in BOOLEAN : CtorSpawn(ok)
    \/ \E ok \in BOOLEAN : SpawnDirect(ok)
    \/ \E s \in DrivenSubmitters : SubmitCall(s)
    \/ \E s \in DrivenSubmitters : SubmitEmpty(s)
    \/ \E s \in DrivenSubmitters : SubmitBegin(s)
    \/ \E s \in DrivenSubmitters : SubmitScan(s)
    \/ \E s \in DrivenSubmitters : SubmitPut(s)
    \/ \E s \in DrivenSubmitters : SubmitFull(s)
    \/ \E id \in InstanceIds : WorkerGet(id)
    \/ AutoScale
    \/ PoolTick

\* Construction and submissions only.
SubmitNext ==
    \/ \E ok \in BOOLEAN : CtorSpawn(ok)
    \/ \E s \in Submitters : SubmitCall(s)
    \/ \E s \in Submitters : SubmitEmpty(s)
    \/ \E s \in Submitters : SubmitBegin(s)
    \/ \E s \in Submitters : SubmitScan(s)
    \/ \E s \in Submitters : SubmitPut(s)
    \/ \E s \in Submitters : SubmitFull(s)
    \/ \E id \in InstanceIds : WorkerGet(id)

\* ---- EnginePool.shutdown() ----
ShutInit ==
    /\ shutPc = "idle"
    /\ instance_ids = <<>>

\* cleanup_resources (server.py lines 1181-1183), reached from
\* monitor_server once the shutdown latch is set, calls shutdown(); lines
\* 548-549 copy the ids of the pooled instances under the lock.
shutdown_snapshot ==
    /\ ctorLeft = 0
    /\ should_shutdown
    /\ shutPc = "idle"
    /\ poolLock = "free"
    /\ instance_ids' = instances
    /\ shutPc' = "closing"
    /\ UNCHANGED poolVars
    /\ UNCHANGED now
    /\ UNCHANGED notShut

shutdown_close_skip ==
    /\ shutPc = "closing"
    /\ instance_ids # <<>>
    /\ poolLock = "free"
    /\ instance_ids' = Tail(instance_ids)
    /\ UNCHANGED <<now, instances, instance_counter, qsize, last_used,
                   poolLock, queue_full_since, queue_empty_since,
                   should_shutdown, ctorLeft, asPc, sub, shutPc>>
    /\ UNCHANGED notShut

\* Lines 551-552: _close_instance of the next id of the copy, which pops it
\* from the pool under the lock (lines 372-375) if it is still there.
shutdown_close ==
    /\ shutPc = "closing"
    /\ instance_ids # <<>>
    /\ poolLock = "free"
    /\ instances' = SelectSeq(instances, LAMBDA x : x # Head(instance_ids))
    /\ instance_ids' = Tail(instance_ids)
    /\ UNCHANGED <<now, instance_counter, qsize, last_used, poolLock,
                   queue_full_since, queue_empty_since, should_shutdown,
                   ctorLeft, asPc, sub, shutPc>>
    /\ UNCHANGED notShut

\* Line 552: the loop over the copy is finished; shutdown() returns.
shutdown_return ==
    /\ shutPc = "closing"
    /\ instance_ids = <<>>
    /\ shutPc' = "returned"
    /\ UNCHANGED instance_ids
    /\ UNCHANGED poolVars
    /\ UNCHANGED now
    /\ UNCHANGED notShut

\* The pool with its monitoring thread, its workers, the latch and
\* shutdown().
ShutNext ==
    \/ \E ok \in BOOLEAN : CtorSpawn(ok)
    \/ AutoScale
    \/ SignalShutdown
    \/ \E id \in InstanceIds : WorkerExit(id)
    \/ PoolTick
    \/ shutdown_snapshot
    \/ shutdown_close
    \/ shutdown_return

\* ---- the pool lock around the subprocess of an instance ----
\* _spawn_instance and _close_instance statement by statement, with the
\* thread that holds EnginePool.lock named in poolLock.
PopenOutcomes == {"popen_error", "no_pipes", "started"}
ReadlineOutcomes == {"eof", "unparsable", "other", "valid"}
\* The statements that start, write to, read from, wait for or kill a
\* subprocess.
SubprocessSteps == {"popen", "probe_write", "probe_read", "exit_io"}

LockInit ==
    /\ spPc = "idle"
    /\ closePc = "idle"

\* _spawn_instance lines 169-171: "with self.lock:" is entered; at
\* max_instances the call returns None, which releases the lock.
spawn_enter ==
    /\ ctorLeft = 0
    /\ spPc = "idle"
    /\ poolLock = "free"
    /\ instance_counter < MaxIds
    /\ IF Len(instances) >= MaxInstances
       THEN UNCHANGED <<spPc, poolLock>>
       ELSE /\ spPc' = "popen"
            /\ poolLock' = "spawn"
    /\ UNCHANGED <<now, instances, instance_counter, qsize, last_used,
                   queue_full_since, queue_empty_since, should_shutdown,
                   ctorLeft, asPc, sub, closePc>>
    /\ UNCHANGED notLock

\* Lines 173-186: subprocess.Popen and the test of its pipes.  An exception
\* goes to line 238, which returns None and leaves the with block.
spawn_popen(outcome) ==
    /\ spPc = "popen"
    /\ IF outcome = "started"
       THEN /\ spPc' = "probe_write"
            /\ UNCHANGED poolLock
       ELSE /\ spPc' = "idle"
            /\ poolLock' = "free"
    /\ UNCHANGED <<now, instances, instance_counter, qsize, last_used,
                   queue_full_since, queue_empty_since, should_shutdown,
                   ctorLeft, asPc, sub, closePc>>
    /\ UNCHANGED notLock

\* Lines 189-193: the ping is written to the subprocess and flushed.
spawn_probe_write(ok) ==
    /\ spPc = "probe_write"
    /\ IF ok
       THEN /\ spPc' = "probe_read"
            /\ UNCHANGED poolLock
       ELSE /\ spPc' = "idle"
            /\ poolLock' = "free"
    /\ UNCHANGED <<now, instances, instance_counter, qsize, last_used,
                   queue_full_since, queue_empty_since, should_shutdown,
                   ctorLeft, asPc, sub, closePc>>
    /\ UNCHANGED notLock

\* Lines 196-241: process.stdout.readline() returns (it has no timeout: for
\* as long as the subprocess writes nothing and keeps its pipe open, this
\* step does not happen), the reply is judged, a valid one registers the
\* instance, and the with block is left.
spawn_probe_read(outcome) ==
    /\ spPc = "probe_read"
    /\ spawn_instance(outcome = "valid")
    /\ spPc' = "idle"
    /\ poolLock' = "free"
    /\ UNCHANGED <<now, queue_full_since, queue_empty_since, should_shutdown,
                   ctorLeft, asPc, sub, closePc>>
    /\ UNCHANGED notLock

\* _close_instance line 372: "with self.lock:" is entered.
close_enter ==
    /\ closePc = "idle"
    /\ poolLock = "free"
    /\ closePc' = "pop"
    /\ poolLock' = "close"
    /\ UNCHANGED <<now, instances, instance_counter, qsize, last_used,
                   queue_full_since, queue_empty_since, should_shutdown,
                   ctorLeft, asPc, sub, spPc>>
    /\ UNCHANGED notLock

\* Lines 373-375: the instance is popped and the with block is left; a
\* missing id returns.
close_pop(id) ==
    /\ closePc = "pop"
    /\ instances' = SelectSeq(instances, LAMBDA x : x # id)
    /\ closePc' = IF id \in Pooled THEN "exit_io" ELSE "idle"
    /\ poolLock' = "free"
    /\ UNCHANGED <<now, instance_counter, qsize, last_used,
                   queue_full_since, queue_empty_since, should_shutdown,
                   ctorLeft, asPc, sub, spPc>>
    /\ UNCHANGED notLock

\* Lines 377-406: the exit message is written, the process is waited for
\* (at most 2 s) or killed, and its pipes are closed.
close_exit_io ==
    /\ closePc = "exit_io"
    /\ closePc' = "idle"
    /\ UNCHANGED <<now, instances, instance_counter, qsize, last_used, poolLock,
                   queue_full_since, queue_empty_since, should_shutdown,
                   ctorLeft, asPc, sub, spPc>>
    /\ UNCHANGED notLock

LockNext ==
    \/ \E ok \in BOOLEAN : CtorSpawn(ok)
    \/ spawn_enter
    \/ \E outcome \in PopenOutcomes : spawn_popen(outcome)
    \/ \E ok \in BOOLEAN : spawn_probe_write(ok)
    \/ \E outcome \in ReadlineOutcomes : spawn_probe_read(outcome)
    \/ close_enter
    \/ \E id \in InstanceIds : close_pop(id)
    \/ close_exit_io
    \/ \E s \in DrivenSubmitters : SubmitCall(s)
    \/ \E s \in DrivenSubmitters : SubmitEmpty(s)
    \/ \E s \in DrivenSubmitters : SubmitBegin(s)
    \/ \E s \in DrivenSubmitters : SubmitScan(s)
    \/ \E s \in DrivenSubmitters : SubmitPut(s)
    \/ \E s \in DrivenSubmitters : SubmitFull(s)
    \/ \E id \in InstanceIds : WorkerGet(id)

\* ---- read_with_timeout: the threads reading an engine's stdout ----
MaxReadTasks == 3      \* tasks the worker of the instance takes in one run
ReadTasks == 1..MaxReadTasks
NoReply == [kind |-> "none", line |-> 0]

ReadInit ==
    /\ stdinReqs = <<>>
    /\ stdoutLines = <<>>
    /\ readers = {}
    /\ readResult = [t \in ReadTasks |-> 0]
    /\ rtPc = "idle"
    /\ rtTask = 0
    /\ delivered = [t \in ReadTasks |-> NoReply]

\* _instance_worker lines 300-319 and read_with_timeout lines 272-282: the
\* worker takes its next task, writes the request to the engine's stdin,
\* starts a read_line thread on the engine's stdout and joins it for at
\* most the timeout.
read_start ==
    LET t == rtTask + 1 IN
    /\ rtPc = "idle"
    /\ rtTask < MaxReadTasks
    /\ rtTask' = t
    /\ stdinReqs' = Append(stdinReqs, t)
    /\ readers' = readers \cup {t}
    /\ rtPc' = "join"
    /\ UNCHANGED <<stdoutLines, readResult, delivered>>
    /\ UNCHANGED notRead

\* The engine answers its oldest unanswered request with one line.
engine_answer ==
    /\ stdinReqs # <<>>
    /\ stdoutLines' = Append(stdoutLines, Head(stdinReqs))
    /\ stdinReqs' = Tail(stdinReqs)
    /\ UNCHANGED <<readers, readResult, rtPc, rtTask, delivered>>
    /\ UNCHANGED notRead

\* read_line lines 275-279: stdout.readline() returns in one of the threads
\* blocked in it; the thread stores the line in its own result list and
\* ends.  Which of several threads reading one text stream gets the line is
\* not defined.
read_line(r) ==
    /\ r \in readers
    /\ stdoutLines # <<>>
    /\ readResult' = [readResult EXCEPT ![r] = Head(stdoutLines)]
    /\ stdoutLines' = Tail(stdoutLines)
    /\ readers' = readers \ {r}
    /\ UNCHANGED <<stdinReqs, rtPc, rtTask, delivered>>
    /\ UNCHANGED notRead

\* Lines 282-292 and 340-345: the join returns with the thread ended; the
\* line is parsed and ("success", response) is put on the task's queue.
read_joined ==
    /\ rtPc = "join"
    /\ rtTask \notin readers
    /\ delivered' = [delivered EXCEPT ![rtTask] =
                       [kind |-> "success", line |-> readResult[rtTask]]]
    /\ rtPc' = "idle"
    /\ UNCHANGED <<stdinReqs, stdoutLines, readers, readResult, rtTask>>
    /\ UNCHANGED notRead

\* Lines 282-286, 321-337 and 347-349: the join times out with the thread
\* still alive; read_with_timeout returns None and leaves the thread in its
\* readline(); ("error", ...) is put on the task's queue.  (A line that is in the pipe is read by a blocked thread
\* well within the timeout, so the join times out only with no line unread.)
read_timed_out ==
    /\ rtPc = "join"
    /\ rtTask \in readers
    /\ stdoutLines = <<>>
    /\ delivered' = [delivered EXCEPT ![rtTask] =
                       [kind |-> "error", line |-> 0]]
    /\ rtPc' = "idle"
    /\ UNCHANGED <<stdinReqs, stdoutLines, readers, readResult, rtTask>>
    /\ UNCHANGED notRead

ReadNext ==
    \/ read_start
    \/ engine_answer
    \/ \E r \in ReadTasks : read_line(r)
    \/ read_joined
    \/ read_timed_out

(***************************************************************************)
(* GAME SWEEPER  (src/python/game/instance_handler.py)                     *)
(***************************************************************************)
SweepHorizon == 1802   \* clock horizon of the sweeper specification

GameIds == {1, 2}

\* instance_handler.py line 40: seconds of inactivity after which a game is
\* swept.
GameTimeout == 1800

\* The clock steps of the sweeper specification.  The loop's sleep of 5 s is
\* short against them (any number of iterations fits between two steps), and
\* so is one iteration.
SweepSteps == {900, 901}

\* utils/constants.py line 130.  server.py line 1296 binds the name
\* ENGINE_POOL of its own module; this one is never assigned.
c_ENGINE_POOL == None

\* game_data.get("status"): matchmaking.py line 235 sets "ongoing" and no
\* code assigns the key afterwards.
status(g) == "ongoing"

Registered(g) == \E i \in 1..Len(ACTIVE_GAMES) : ACTIVE_GAMES[i] = g

SweepInit ==
    /\ ACTIVE_GAMES = <<>>
    /\ gameState = [g \in GameIds |-> "new"]
    /\ gameLastMove = [g \in GameIds |-> 0]
    /\ swPc = "sleep"
    /\ swSnap = <<>>
    /\ games_to_remove = <<>>
    /\ swFound = {}

\* matchmaking.py lines 148-163: _create_game stores a new game record.
CreateGame(g) ==
    /\ gameState[g] = "new"
    /\ gameState' = [gameState EXCEPT ![g] = "active"]
    /\ gameLastMove' = [gameLastMove EXCEPT ![g] = now]
    /\ ACTIVE_GAMES' = Append(ACTIVE_GAMES, g)
    /\ UNCHANGED <<now, swPc, swSnap, games_to_remove, swFound>>
    /\ UNCHANGED notSweep

\* server.py line 846: an accepted move stamps the record.
TouchGame(g) ==
    /\ gameState[g] = "active"
    /\ Registered(g)
    /\ gameLastMove[g] # now
    /\ gameLastMove' = [gameLastMove EXCEPT ![g] = now]
    /\ UNCHANGED <<now, ACTIVE_GAMES, gameState, swPc, swSnap, games_to_remove,
                   swFound>>
    /\ UNCHANGED notSweep

\* server.py line 1054: handle_game_end pops the record.
EndGame(g) ==
    /\ gameState[g] = "active"
    /\ Registered(g)
    /\ gameState' = [gameState EXCEPT ![g] = "ended"]
    /\ ACTIVE_GAMES' = SelectSeq(ACTIVE_GAMES, LAMBDA x : x # g)
    /\ UNCHANGED <<now, gameLastMove, swPc, swSnap, games_to_remove, swFound>>
    /\ UNCHANGED notSweep

\* instance_handler.py lines 29-38: an iteration starts; auto_scale is
\* skipped (line 32), the registry is copied.
SweepBegin ==
    /\ swPc = "sleep"
    /\ ~should_shutdown
    /\ c_ENGINE_POOL = None
    /\ swSnap' = ACTIVE_GAMES
    /\ games_to_remove' = <<>>
    /\ swFound' = {}
    /\ swPc' = IF ACTIVE_GAMES = <<>> THEN "stats" ELSE "scan"
    /\ UNCHANGED <<now, ACTIVE_GAMES, gameState, gameLastMove>>
    /\ UNCHANGED notSweep

\* instance_handler.py lines 40 and 46: the two removal criteria.
to_remove(g) ==
    \/ now - gameLastMove[g] > GameTimeout
    \/ status(g) = "finished"

\* instance_handler.py lines 38-47: the next game of the copy is examined.
SweepExamine ==
    LET g == Head(swSnap)
        rem == IF to_remove(g) THEN Append(games_to_remove, g)
               ELSE games_to_remove
    IN
    /\ swPc = "scan"
    /\ swSnap' = Tail(swSnap)
    /\ games_to_remove' = rem
    /\ swFound' = IF to_remove(g) THEN swFound \cup {g} ELSE swFound
    /\ swPc' = IF Tail(swSnap) # <<>> THEN "scan"
               ELSE IF rem # <<>> THEN "check" ELSE "stats"
    /\ UNCHANGED <<now, ACTIVE_GAMES, gameState, gameLastMove>>
    /\ UNCHANGED notSweep

\* instance_handler.py lines 50-51: "if game_id in c.ACTIVE_GAMES".
SweepCheck ==
    LET g == Head(games_to_remove) IN
    /\ swPc = "check"
    /\ IF Registered(g)
       THEN swPc' = "del" /\ UNCHANGED games_to_remove
       ELSE /\ games_to_remove' = Tail(games_to_remove)
            /\ swPc' = IF Tail(games_to_remove) # <<>> THEN "check" ELSE "stats"
    /\ UNCHANGED <<now, ACTIVE_GAMES, gameState, gameLastMove, swSnap, swFound>>
    /\ UNCHANGED notSweep

\* instance_handler.py line 52: "del c.ACTIVE_GAMES[game_id]".
SweepDelete ==
    LET g == Head(games_to_remove) IN
    /\ swPc = "del"
    /\ Registered(g)
    /\ ACTIVE_GAMES' = SelectSeq(ACTIVE_GAMES, LAMBDA x : x # g)
    /\ gameState' = [gameState EXCEPT ![g] = "ended"]
    /\ games_to_remove' = Tail(games_to_remove)
    /\ swPc' = IF Tail(games_to_remove) # <<>> THEN "check" ELSE "stats"
    /\ UNCHANGED <<now, gameLastMove, swSnap, swFound>>
    /\ UNCHANGED notSweep

\* instance_handler.py lines 52, 64-67: the key is gone, del raises KeyError;
\* the handler prints, sleeps and the loop starts its next iteration.
SweepKeyError ==
    LET g == Head(games_to_remove) IN
    /\ swPc = "del"
    /\ ~Registered(g)
    /\ games_to_remove' = <<>>
    /\ swPc' = "sleep"
    /\ UNCHANGED <<now, ACTIVE_GAMES, gameState, gameLastMove, swSnap, swFound>>
    /\ UNCHANGED notSweep

\* instance_handler.py lines 55-62: the stats line, then time.sleep(5).
SweepSleep ==
    /\ swPc = "stats"
    /\ swPc' = "sleep"
    /\ UNCHANGED <<now, ACTIVE_GAMES, gameState, gameLastMove, swSnap,
                   games_to_remove, swFound>>
    /\ UNCHANGED notSweep

\* instance_handler.py line 29: the loop test finds the latch raised.
instance_thread_handler_exit ==
    /\ swPc = "sleep"
    /\ should_shutdown
    /\ swPc' = "exited"
    /\ UNCHANGED <<now, ACTIVE_GAMES, gameState, gameLastMove, swSnap,
                   games_to_remove, swFound>>
    /\ UNCHANGED notSweep

\* Time passes while the loop sleeps.
SweepTick ==
    /\ swPc = "sleep"
    /\ \E d \in SweepSteps : Tick(d, SweepHorizon)
    /\ UNCHANGED sweepVars
    /\ UNCHANGED notSweep

SweepNext ==
    \/ \E g \in GameIds : CreateGame(g)
    \/ \E g \in GameIds : TouchGame(g)
    \/ \E g \in GameIds : EndGame(g)
    \/ SweepBegin
    \/ SweepExamine
    \/ SweepCheck
    \/ SweepDelete
    \/ SweepKeyError
    \/ SweepSleep
    \/ SweepTick

(***************************************************************************)
(* ServerState: the shutdown and error latches (utils/ServerState.py).     *)
(***************************************************************************)
MaxErrorCalls == 3
Signallers == {"e1", "e2"}
ErrorMessages == {"DB not initialized", "HTTP server failed"}
IdleSig == [pc |-> "idle", msg |-> None]
IdleObs == [pc |-> "idle", err |-> FALSE, shut |-> FALSE]

\* ServerState.__init__ lines 61-65.
StateInit ==
    /\ error_event = FALSE
    /\ error_message = None
    /\ stateLock = "free"
    /\ sig = [t \in Signallers |-> IdleSig]
    /\ errorCalls = <<>>
    /\ obs = IdleObs

\* signal_error line 93: with self._lock.
SignalErrorLock(t, msg) ==
    /\ sig[t].pc = "idle"
    /\ stateLock = "free"
    /\ Len(errorCalls) < MaxErrorCalls
    /\ stateLock' = t
    /\ sig' = [sig EXCEPT ![t] = [pc |-> "message", msg |-> msg]]
    /\ errorCalls' = Append(errorCalls, msg)
    /\ UNCHANGED <<error_event, error_message, obs, should_shutdown>>
    /\ UNCHANGED notState

\* signal_error line 94: self._error_message = error_message.
SignalErrorMessage(t) ==
    /\ sig[t].pc = "message"
    /\ error_message' = sig[t].msg
    /\ sig' = [sig EXCEPT ![t].pc = "error"]
    /\ UNCHANGED <<error_event, stateLock, errorCalls, obs, should_shutdown>>
    /\ UNCHANGED notState

\* signal_error line 95: self._error_event.set().
SignalErrorEvent(t) ==
    /\ sig[t].pc = "error"
    /\ error_event' = TRUE
    /\ sig' = [sig EXCEPT ![t].pc = "shutdown"]
    /\ UNCHANGED <<error_message, stateLock, errorCalls, obs, should_shutdown>>
    /\ UNCHANGED notState

\* signal_error lines 96-97: self._shutdown_event.set(), the print, and the
\* release of the lock.
SignalErrorShutdown(t) ==
    /\ sig[t].pc = "shutdown"
    /\ should_shutdown' = TRUE
    /\ stateLock' = "free"
    /\ sig' = [sig EXCEPT ![t] = IdleSig]
    /\ UNCHANGED <<error_event, error_message, errorCalls, obs>>
    /\ UNCHANGED notState

\* signal_shutdown lines 79-81, called from the signal handler
\* (server.py line 1126): takes the lock, sets the shutdown latch.
signal_shutdown ==
    /\ stateLock = "free"
    /\ should_shutdown' = TRUE
    /\ UNCHANGED stateVars
    /\ UNCHANGED notState

\* has_error lines 111-121: reads the error latch, without the lock.
has_error ==
    /\ obs.pc = "idle"
    /\ obs' = [pc |-> "has_error", err |-> error_event, shut |-> FALSE]
    /\ UNCHANGED <<error_event, error_message, stateLock, sig, errorCalls,
                   should_shutdown>>
    /\ UNCHANGED notState

\* should_shutdown lines 99-109, called by the thread that has just called
\* has_error: reads the shutdown latch, without the lock.
ReadShouldShutdown ==
    /\ obs.pc = "has_error"
    /\ obs' = [obs EXCEPT !.pc = "done", !.shut = should_shutdown]
    /\ UNCHANGED <<error_event, error_message, stateLock, sig, errorCalls,
                   should_shutdown>>
    /\ UNCHANGED notState

\* wait_for_shutdown lines 136-150: returns once the shutdown latch is set;
\* the caller then reads the latches again (server.py lines 1134-1142).
wait_for_shutdown ==
    /\ obs.pc = "done"
    /\ should_shutdown
    /\ obs' = IdleObs
    /\ UNCHANGED <<error_event, error_message, stateLock, sig, errorCalls,
                   should_shutdown>>
    /\ UNCHANGED notState

\* get_error_message lines 123-134 takes the lock, so it runs only between
\* two calls of signal_error; it then returns _error_message.
get_error_message_enabled == stateLock = "free"

StateNext ==
    \/ \E t \in Signallers : \E msg \in ErrorMessages : SignalErrorLock(t, msg)
    \/ \E t \in Signallers : SignalErrorMessage(t)
    \/ \E t \in Signallers : SignalErrorEvent(t)
    \/ \E t \in Signallers : SignalErrorShutdown(t)
    \/ signal_shutdown
    \/ has_error
    \/ ReadShouldShutdown
    \/ wait_for_shutdown


\* ---- the worker thread of one engine instance
\* (src/python/utils/EngineHandler.py) ----
MaxTasks == 4          \* tasks submitted to the instance in one run
Tasks == 1..MaxTasks

\* What sending a task to the engine can come to (lines 311-343): a line
\* that parses; write or flush raising; no line within 2 s; an empty read;
\* a line that does not parse.
EngineOutcomes == {"reply", "write_error", "timeout", "eof", "unparsable"}

WorkerInit ==
    /\ task_queue = <<>>
    /\ wkPc = "top"
    /\ wkTask = 0
    /\ response_queue = [k \in Tasks |-> <<>>]
    /\ replyLog = <<>>
    /\ task_done = [k \in Tasks |-> 0]
    /\ nextTask = 1

\* submit_task line 443: task_queue.put of a new task, the queue not full.
submit_put ==
    /\ nextTask <= MaxTasks
    /\ Len(task_queue) < QueueSize
    /\ task_queue' = Append(task_queue, nextTask)
    /\ nextTask' = nextTask + 1
    /\ UNCHANGED <<wkPc, wkTask, response_queue, replyLog, task_done>>
    /\ UNCHANGED notWorker

\* The truth value Python gives a pipe of the subprocess: a file object is
\* true whether it is open or closed; only None is false.
Truthy(f) == f # None

\* _instance_worker lines 294-297 and 354-362: the loop test, then the test
\* of the pipes, which raises InstanceInoperable (caught at 354, break).  A
\* worker that leaves the loop calls _close_instance (line 362), which pops
\* its instance if it is still in the pool and closes the pipes.
worker_loop_test ==
    LET leave == should_shutdown \/ ~Truthy(stdio) IN
    /\ wkPc = "top"
    /\ wkPc' = IF leave THEN "exited" ELSE "get"
    /\ stdio' = IF leave /\ inPool THEN "closed" ELSE stdio
    /\ inPool' = IF leave THEN FALSE ELSE inPool
    /\ UNCHANGED <<task_queue, wkTask, response_queue, replyLog, task_done,
                   nextTask>>
    /\ UNCHANGED notPipes

worker_get_newest ==
    /\ wkPc = "get"
    /\ task_queue # <<>>
    /\ wkTask' = task_queue[Len(task_queue)]
    /\ task_queue' = SubSeq(task_queue, 1, Len(task_queue) - 1)
    /\ wkPc' = "process"
    /\ UNCHANGED <<response_queue, replyLog, task_done, nextTask>>
    /\ UNCHANGED notWorker

\* Lines 300-308: task_queue.get returns the oldest task (queue.Queue).
worker_get ==
    /\ wkPc = "get"
    /\ task_queue # <<>>
    /\ wkTask' = Head(task_queue)
    /\ task_queue' = Tail(task_queue)
    /\ wkPc' = "process"
    /\ UNCHANGED <<response_queue, replyLog, task_done, nextTask>>
    /\ UNCHANGED notWorker

\* Lines 300-303: queue.Empty after 1 s; continue.
worker_get_empty ==
    /\ wkPc = "get"
    /\ task_queue = <<>>
    /\ wkPc' = "top"
    /\ UNCHANGED <<task_queue, wkTask, response_queue, replyLog, task_done,
                   nextTask>>
    /\ UNCHANGED notWorker

\* Lines 310-347: the task is sent and the reply put on its response_queue:
\* ("success", response) at line 343 as the last statement of the try, or
\* ("error", str(e)) from the handler at lines 345-347.
worker_process(outcome) ==
    LET kind == IF outcome = "reply" THEN "success" ELSE "error"
    IN
    /\ wkPc = "process"
    /\ stdio = "closed" => outcome = "write_error"
    /\ stdio = "broken" => outcome \in {"write_error", "eof"}
    /\ response_queue' = [response_queue EXCEPT ![wkTask] = Append(@, kind)]
    /\ replyLog' = Append(replyLog, wkTask)
    /\ wkPc' = "finally"
    /\ UNCHANGED <<task_queue, wkTask, task_done, nextTask>>
    /\ UNCHANGED notWorker

\* Lines 349-351: finally, task_queue.task_done(); back to the loop test.
worker_task_done ==
    /\ wkPc = "finally"
    /\ task_done' = [task_done EXCEPT ![wkTask] = @ + 1]
    /\ wkTask' = 0
    /\ wkPc' = "top"
    /\ UNCHANGED <<task_queue, response_queue, replyLog, nextTask>>
    /\ UNCHANGED notWorker

\* ---- the pipes of the instance ----
PipesInit ==
    /\ stdio = "open"
    /\ inPool = TRUE

\* _close_instance lines 372-406, called for this instance by auto_scale's
\* scale-down (line 515) or by shutdown() (line 549): the instance is popped
\* from the pool, told to exit, waited for or killed, and its pipes are
\* closed.
close_instance ==
    /\ inPool
    /\ inPool' = FALSE
    /\ stdio' = "closed"
    /\ UNCHANGED workerVars
    /\ UNCHANGED notPipes

\* The engine subprocess exits by itself: its ends of the pipes are gone,
\* the file objects of the instance stay as they are.
engine_dies ==
    /\ stdio = "open"
    /\ stdio' = "broken"
    /\ UNCHANGED inPool
    /\ UNCHANGED workerVars
    /\ UNCHANGED notPipes

PipesNext ==
    \/ submit_put
    \/ worker_loop_test
    \/ worker_get
    \/ worker_get_empty
    \/ \E outcome \in EngineOutcomes : worker_process(outcome)
    \/ worker_task_done
    \/ close_instance
    \/ engine_dies
    \/ signal_shutdown

WorkerNext ==
    \/ submit_put
    \/ worker_loop_test
    \/ worker_get
    \/ worker_get_empty
    \/ \E outcome \in EngineOutcomes : worker_process(outcome)
    \/ worker_task_done
    \/ signal_shutdown

(***************************************************************************)
(* MATCHMAKING  (src/python/game/matchmaking.py, server.py handle_search   *)
(* and handle_cancel_search).  A player is a user with one session.        *)
(***************************************************************************)
MaxSearches == 4
MmHorizon == 300
MmPlayers == {"alice", "bob", "carol"}

\* matchmaking.py line 29: stale_player_threshold.
StaleThreshold == 300

\* The clock steps of the matchmaking specification.
MmSteps == {150}

\* matchmaking.py line 32-34, constants.py lines 109-117.
MmInit ==
    /\ MATCHMAKING_QUEUE = <<>>
    /\ waiting_players = <<>>
    /\ waiting_player_ids = {}
    /\ MATCHMAKING_RESULTS = [p \in MmPlayers |-> 0]
    /\ gamePlayers = [g \in GameIds |-> <<>>]
    /\ mmPc = "poll"
    /\ mmPair = <<>>
    /\ mmValid = FALSE
    /\ sessionValid = [p \in MmPlayers |-> TRUE]
    /\ searches = 0
    /\ searchState = [p \in MmPlayers |-> "none"]

InQueue(p) == \E i \in 1..Len(MATCHMAKING_QUEUE) : MATCHMAKING_QUEUE[i] = p
Waiting(p) == \E i \in 1..Len(waiting_players) : waiting_players[i][1] = p

\* server.py lines 493-498: the scan of the registry for the user.
has_active_game(p) ==
    \E i \in 1..Len(ACTIVE_GAMES) :
       \E k \in 1..Len(gamePlayers[ACTIVE_GAMES[i]]) :
          gamePlayers[ACTIVE_GAMES[i]][k] = p

\* handle_search lines 480-509 when the user is in no registered game: the
\* candidate is put on the queue.
handle_search(p) ==
    /\ searches < MaxSearches
    /\ sessionValid[p]
    /\ ~has_active_game(p)
    /\ searches' = searches + 1
    /\ MATCHMAKING_QUEUE' = Append(MATCHMAKING_QUEUE, p)
    /\ searchState' = [searchState EXCEPT ![p] = "searching"]
    /\ UNCHANGED <<now, waiting_players, waiting_player_ids,
                   MATCHMAKING_RESULTS, gamePlayers, mmPc, mmPair, mmValid, sessionValid>>
    /\ UNCHANGED sweepVars
    /\ UNCHANGED notMm

\* handle_search lines 493-498, 511-512: the user is in a registered game,
\* the request is answered 409 and nothing is put.
handle_search_conflict(p) ==
    /\ searches < MaxSearches
    /\ sessionValid[p]
    /\ has_active_game(p)
    /\ searches' = searches + 1
    /\ UNCHANGED <<now, MATCHMAKING_QUEUE, waiting_players, waiting_player_ids,
                   MATCHMAKING_RESULTS, gamePlayers, mmPc, mmPair, mmValid, sessionValid,
                   searchState>>
    /\ UNCHANGED sweepVars
    /\ UNCHANGED notMm

\* handle_cancel_search lines 526-547: the queue is rebuilt without the
\* entries of the session; the loop's waiting list is not reachable from
\* the handler and is left as it is.
handle_cancel_search(p) ==
    /\ sessionValid[p]
    /\ searchState[p] = "searching"
    /\ MATCHMAKING_QUEUE' = SelectSeq(MATCHMAKING_QUEUE, LAMBDA x : x # p)
    /\ searchState' = [searchState EXCEPT ![p] = "cancelled"]
    /\ UNCHANGED <<now, waiting_players, waiting_player_ids,
                   MATCHMAKING_RESULTS, gamePlayers, mmPc, mmPair, mmValid, sessionValid,
                   searches>>
    /\ UNCHANGED sweepVars
    /\ UNCHANGED notMm

\* _remove_stale_players lines 92-105, applied to a waiting list.
remove_stale_players(w) == SelectSeq(w, LAMBDA e : now - e[2] < StaleThreshold)

IdsOf(w) == {w[i][1] : i \in 1..Len(w)}

\* The search state of the players an iteration drops from the waiting list.
Dropped(old, new) ==
    [p \in MmPlayers |->
        IF p \in IdsOf(old) \ IdsOf(new) /\ searchState[p] = "searching"
        THEN "none" ELSE searchState[p]]

\* handle_logout / session expiry: the player's session is deleted from the
\* session store (SessionManager.delete_session lines 251-256).
logout(p) ==
    /\ sessionValid[p]
    /\ sessionValid' = [sessionValid EXCEPT ![p] = FALSE]
    /\ UNCHANGED <<now, MATCHMAKING_QUEUE, waiting_players, waiting_player_ids,
                   MATCHMAKING_RESULTS, gamePlayers, mmPc, mmPair, mmValid,
                   searches, searchState>>
    /\ UNCHANGED sweepVars
    /\ UNCHANGED notMm

poll_queue_no_dedup ==
    /\ mmPc = "poll"
    /\ ~should_shutdown
    /\ MATCHMAKING_QUEUE # <<>>
    /\ MATCHMAKING_QUEUE' = Tail(MATCHMAKING_QUEUE)
    /\ waiting_players' = Append(waiting_players, <<Head(MATCHMAKING_QUEUE), now>>)
    /\ waiting_player_ids' = waiting_player_ids \cup {Head(MATCHMAKING_QUEUE)}
    /\ mmPc' = "stale"
    /\ UNCHANGED <<now, MATCHMAKING_RESULTS, gamePlayers, mmPair, mmValid,
                   sessionValid, searches, searchState>>
    /\ UNCHANGED sweepVars
    /\ UNCHANGED notMm

\* matchmaking_loop line 45 finds the latch down; _poll_queue lines 72-86
\* with a candidate on the queue: a candidate whose
\* user_id is in the deduplication set is dropped, any other is stamped and
\* appended.
poll_queue ==
    /\ mmPc = "poll"
    /\ ~should_shutdown
    /\ MATCHMAKING_QUEUE # <<>>
    /\ LET player == Head(MATCHMAKING_QUEUE)
           dup == player \in waiting_player_ids
       IN /\ MATCHMAKING_QUEUE' = Tail(MATCHMAKING_QUEUE)
          /\ waiting_players' = IF dup THEN waiting_players
                                ELSE Append(waiting_players, <<player, now>>)
          /\ waiting_player_ids' = IF dup THEN waiting_player_ids
                                   ELSE waiting_player_ids \cup {player}
    /\ mmPc' = "stale"
    /\ UNCHANGED <<now, MATCHMAKING_RESULTS, gamePlayers, mmPair, mmValid,
                   sessionValid, searches, searchState>>
    /\ UNCHANGED sweepVars
    /\ UNCHANGED notMm

\* matchmaking_loop line 45, latch down; _poll_queue lines 88-89: queue.Empty
\* after the wait of 1 s.
poll_queue_empty ==
    /\ mmPc = "poll"
    /\ ~should_shutdown
    /\ MATCHMAKING_QUEUE = <<>>
    /\ mmPc' = "stale"
    /\ UNCHANGED <<now, MATCHMAKING_QUEUE, waiting_players, waiting_player_ids,
                   MATCHMAKING_RESULTS, gamePlayers, mmPair, mmValid,
                   sessionValid, searches, searchState>>
    /\ UNCHANGED sweepVars
    /\ UNCHANGED notMm

\* matchmaking_loop lines 51-53: _remove_stale_players.
purge_stale ==
    /\ mmPc = "stale"
    /\ LET kept == remove_stale_players(waiting_players)
       IN /\ waiting_players' = kept
          /\ waiting_player_ids' =
                waiting_player_ids \ (IdsOf(waiting_players) \ IdsOf(kept))
          /\ searchState' = Dropped(waiting_players, kept)
    /\ mmPc' = "create"
    /\ UNCHANGED <<now, MATCHMAKING_QUEUE, MATCHMAKING_RESULTS, gamePlayers,
                   mmPair, mmValid, sessionValid, searches>>
    /\ UNCHANGED sweepVars
    /\ UNCHANGED notMm

pop_pair_newest_first ==
    /\ mmPc = "create"
    /\ Len(waiting_players) >= 2
    /\ mmPair' = <<waiting_players[Len(waiting_players)],
                   waiting_players[Len(waiting_players) - 1]>>
    /\ waiting_players' = SubSeq(waiting_players, 1, Len(waiting_players) - 2)
    /\ waiting_player_ids' = waiting_player_ids \ IdsOf(mmPair')
    /\ mmPc' = "validate"
    /\ UNCHANGED <<now, MATCHMAKING_QUEUE, MATCHMAKING_RESULTS, gamePlayers,
                   mmValid, sessionValid, searches, searchState>>
    /\ UNCHANGED sweepVars
    /\ UNCHANGED notMm

\* _create_games_from_queue lines 112-117: the two entries at the head of
\* the waiting list are popped and their ids discarded.
pop_pair ==
    /\ mmPc = "create"
    /\ Len(waiting_players) >= 2
    /\ mmPair' = <<waiting_players[1], waiting_players[2]>>
    /\ waiting_players' = Tail(Tail(waiting_players))
    /\ waiting_player_ids' =
          waiting_player_ids \ {waiting_players[1][1], waiting_players[2][1]}
    /\ mmPc' = "validate"
    /\ UNCHANGED <<now, MATCHMAKING_QUEUE, MATCHMAKING_RESULTS, gamePlayers,
                   mmValid, sessionValid, searches, searchState>>
    /\ UNCHANGED sweepVars
    /\ UNCHANGED notMm

validate_first_session_only ==
    /\ mmPc = "validate"
    /\ mmValid' = sessionValid[mmPair[1][1]]
    /\ mmPc' = "decide"
    /\ UNCHANGED <<now, MATCHMAKING_QUEUE, waiting_players, waiting_player_ids,
                   MATCHMAKING_RESULTS, gamePlayers, mmPair, sessionValid,
                   searches, searchState>>
    /\ UNCHANGED sweepVars
    /\ UNCHANGED notMm

\* _validate_player_sessions lines 135-137: both sessions are looked up in
\* the session store.
validate_player_sessions ==
    /\ mmPc = "validate"
    /\ mmValid' = (sessionValid[mmPair[1][1]] /\ sessionValid[mmPair[2][1]])
    /\ mmPc' = "decide"
    /\ UNCHANGED <<now, MATCHMAKING_QUEUE, waiting_players, waiting_player_ids,
                   MATCHMAKING_RESULTS, gamePlayers, mmPair, sessionValid,
                   searches, searchState>>
    /\ UNCHANGED sweepVars
    /\ UNCHANGED notMm

\* _create_games_from_queue line 123 and _create_game lines 148-183: with
\* both sessions valid the record is stored (legal moves stay [] because
\* constants.ENGINE_POOL is None) and the results are published.
create_game(g) ==
    /\ mmPc = "decide"
    /\ mmValid
    /\ gameState[g] = "new"
    /\ \A h \in GameIds : gameState[h] = "new" => g <= h
    /\ LET player1 == mmPair[1][1]
           player2 == mmPair[2][1]
       IN /\ gamePlayers' = [gamePlayers EXCEPT ![g] = <<player1, player2>>]
          /\ MATCHMAKING_RESULTS' =
                [p \in MmPlayers |->
                    IF p \in {player1, player2} THEN g
                    ELSE MATCHMAKING_RESULTS[p]]
          /\ searchState' =
                [p \in MmPlayers |->
                    IF p \in {player1, player2} /\ searchState[p] = "searching"
                    THEN "none" ELSE searchState[p]]
    /\ gameState' = [gameState EXCEPT ![g] = "active"]
    /\ gameLastMove' = [gameLastMove EXCEPT ![g] = now]
    /\ ACTIVE_GAMES' = Append(ACTIVE_GAMES, g)
    /\ mmPair' = <<>>
    /\ mmPc' = "create"
    /\ UNCHANGED <<now, MATCHMAKING_QUEUE, waiting_players, waiting_player_ids,
                   mmValid, sessionValid, searches>>
    /\ UNCHANGED <<swPc, swSnap, games_to_remove, swFound>>
    /\ UNCHANGED notMm

\* _create_game lines 151-160, 185-188 and _create_games_from_queue lines
\* 125-129: get_user_stats_by_id finds no row for a player (the account was
\* deleted), building the record raises, _create_game returns False and
\* both entries are put back at the head, in their order, with their ids.
create_game_failed ==
    /\ mmPc = "decide"
    /\ mmValid
    /\ waiting_players' = <<mmPair[1], mmPair[2]>> \o waiting_players
    /\ waiting_player_ids' = waiting_player_ids \cup {mmPair[1][1], mmPair[2][1]}
    /\ mmPair' = <<>>
    /\ mmPc' = "create"
    /\ UNCHANGED <<now, MATCHMAKING_QUEUE, MATCHMAKING_RESULTS, gamePlayers,
                   mmValid, sessionValid, searches, searchState>>
    /\ UNCHANGED sweepVars
    /\ UNCHANGED notMm

\* _create_games_from_queue lines 119-121: a session of the pair did not
\* resolve; both entries stay discarded and the loop continues.
skip_invalid_pair ==
    /\ mmPc = "decide"
    /\ ~mmValid
    /\ searchState' = Dropped(mmPair, <<>>)
    /\ mmPair' = <<>>
    /\ mmPc' = "create"
    /\ UNCHANGED <<now, MATCHMAKING_QUEUE, waiting_players, waiting_player_ids,
                   MATCHMAKING_RESULTS, gamePlayers, mmValid, sessionValid,
                   searches>>
    /\ UNCHANGED sweepVars
    /\ UNCHANGED notMm

\* _create_games_from_queue line 112 with fewer than two entries, then the
\* sleep of matchmaking_loop line 58.
create_games_done ==
    /\ mmPc = "create"
    /\ Len(waiting_players) < 2
    /\ mmPc' = "poll"
    /\ UNCHANGED <<now, MATCHMAKING_QUEUE, waiting_players, waiting_player_ids,
                   MATCHMAKING_RESULTS, gamePlayers, mmPair, mmValid,
                   sessionValid, searches, searchState>>
    /\ UNCHANGED sweepVars
    /\ UNCHANGED notMm

\* matchmaking_loop lines 45 and 65: the loop test finds the latch raised.
matchmaking_loop_exit ==
    /\ mmPc = "poll"
    /\ should_shutdown
    /\ mmPc' = "exited"
    /\ UNCHANGED <<now, MATCHMAKING_QUEUE, waiting_players, waiting_player_ids,
                   MATCHMAKING_RESULTS, gamePlayers, mmPair, mmValid,
                   sessionValid, searches, searchState>>
    /\ UNCHANGED sweepVars
    /\ UNCHANGED notMm

\* ---- handle_cancel_search statement by statement ----
CancelInit ==
    /\ cnPc = "idle"
    /\ cnWho = None
    /\ temp_queue = <<>>
    /\ removed = FALSE
    /\ cnBefore = <<>>

\* handle_search for a player who has not searched before: every candidate
\* is on the queue at most once.
search_once(p) ==
    /\ searchState[p] = "none"
    /\ handle_search(p)

\* handle_cancel_search lines 516-528: the request is authenticated and the
\* empty temp_queue and the flag are created.
cancel_search_begin(p) ==
    /\ cnPc = "idle"
    /\ sessionValid[p]
    /\ cnPc' = "drain"
    /\ cnWho' = p
    /\ temp_queue' = <<>>
    /\ removed' = FALSE
    /\ cnBefore' = MATCHMAKING_QUEUE
    /\ UNCHANGED <<now, mmVars>>
    /\ UNCHANGED notCancel

\* Lines 530-536: one iteration of the first loop: get_nowait() takes the
\* head of the queue, which goes to temp_queue unless it is the caller's.
cancel_search_drain ==
    LET player == Head(MATCHMAKING_QUEUE) IN
    /\ cnPc = "drain"
    /\ MATCHMAKING_QUEUE # <<>>
    /\ MATCHMAKING_QUEUE' = Tail(MATCHMAKING_QUEUE)
    /\ temp_queue' = IF player # cnWho THEN Append(temp_queue, player)
                     ELSE temp_queue
    /\ removed' = (removed \/ player = cnWho)
    /\ UNCHANGED <<now, waiting_players, waiting_player_ids,
                   MATCHMAKING_RESULTS, gamePlayers, mmPc, mmPair, mmValid,
                   sessionValid, searches, searchState, cnPc, cnWho, cnBefore>>
    /\ UNCHANGED notCancel

\* Lines 530, 537-538: the queue is found empty and the first loop ends.
cancel_search_drained ==
    /\ cnPc = "drain"
    /\ MATCHMAKING_QUEUE = <<>>
    /\ cnPc' = "restore"
    /\ UNCHANGED <<now, mmVars, cnWho, temp_queue, removed, cnBefore>>
    /\ UNCHANGED notCancel

\* Lines 541-542: one iteration of the second loop: the head of temp_queue
\* is put at the tail of the queue.
cancel_search_restore ==
    /\ cnPc = "restore"
    /\ temp_queue # <<>>
    /\ MATCHMAKING_QUEUE' = Append(MATCHMAKING_QUEUE, Head(temp_queue))
    /\ temp_queue' = Tail(temp_queue)
    /\ UNCHANGED <<now, waiting_players, waiting_player_ids,
                   MATCHMAKING_RESULTS, gamePlayers, mmPc, mmPair, mmValid,
                   sessionValid, searches, searchState, cnPc, cnWho, removed,
                   cnBefore>>
    /\ UNCHANGED notCancel

\* Lines 541, 544-547: temp_queue is empty; the request is answered, 200 if
\* an entry was removed and 404 if not.
cancel_search_respond ==
    /\ cnPc = "restore"
    /\ temp_queue = <<>>
    /\ cnPc' = "idle"
    /\ searchState' = IF removed /\ searchState[cnWho] = "searching"
                      THEN [searchState EXCEPT ![cnWho] = "cancelled"]
                      ELSE searchState
    /\ UNCHANGED <<now, MATCHMAKING_QUEUE, waiting_players, waiting_player_ids,
                   MATCHMAKING_RESULTS, gamePlayers, mmPc, mmPair, mmValid,
                   sessionValid, searches, cnWho, temp_queue, removed,
                   cnBefore>>
    /\ UNCHANGED notCancel

\* The requests that put and cancel, and the matchmaking loop that takes.
CancelNext ==
    \/ \E p \in MmPlayers : search_once(p)
    \/ \E p \in MmPlayers : cancel_search_begin(p)
    \/ cancel_search_drain
    \/ cancel_search_drained
    \/ cancel_search_restore
    \/ cancel_search_respond
    \/ poll_queue
    \/ poll_queue_empty
    \/ purge_stale
    \/ pop_pair
    \/ validate_player_sessions
    \/ \E g \in GameIds : create_game(g)
    \/ create_games_done

\* Time passes.
MmTick ==
    /\ \E d \in MmSteps : Tick(d, MmHorizon)
    /\ UNCHANGED mmVars
    /\ UNCHANGED sweepVars
    /\ UNCHANGED notMm

MmNext ==
    \/ \E p \in MmPlayers : handle_search(p)
    \/ \E p \in MmPlayers : handle_search_conflict(p)
    \/ \E p \in MmPlayers : handle_cancel_search(p)
    \/ \E p \in MmPlayers : logout(p)
    \/ poll_queue
    \/ poll_queue_empty
    \/ purge_stale
    \/ pop_pair
    \/ validate_player_sessions
    \/ \E g \in GameIds : create_game(g)
    \/ create_game_failed
    \/ skip_invalid_pair
    \/ create_games_done
    \/ MmTick


(***************************************************************************)
(* THE END OF A GAME  (server.py: on_ws_connected, on_ws_closed,           *)
(* handle_ws_resign, handle_ws_draw_accept, handle_game_end).  Game G is   *)
(* played by account A (white, player1) and account B (black, player2).    *)
(***************************************************************************)
\* The connections of the two players' sessions (one each).
EndConns == {"w1", "b1"}

account(col) == IF col = "white" THEN "A" ELSE "B"

Msg(type, winner, reason) == [type |-> type, winner |-> winner, reason |-> reason]

NewWs == [pc |-> "new", reason |-> None, winner_color |-> None]

\* handle_game_end lines 999-1015: which branch a reason takes.
Decisive(reason) == reason \in {"checkmate", "resignation"}

EndInit ==
    /\ gRecord = "new"
    /\ recElo = [col \in Colors |-> DefaultElo]
    /\ websocket = [col \in Colors |-> None]
    /\ ws = [c \in EndConns |-> NewWs]
    /\ inbox = [c \in EndConns |-> <<>>]
    /\ wins = [u \in Accounts |-> 0]
    /\ losses = [u \in Accounts |-> 0]
    /\ draws = [u \in Accounts |-> 0]

\* send_message to the connection in each filled slot (lines 993-996,
\* 930-933).
SendToSlots(msg) ==
    [d \in EndConns |->
        IF \E col \in Colors : websocket[col] = d
        THEN Append(inbox[d], msg) ELSE inbox[d]]

\* Before G exists, account B loses an earlier game to a newly registered
\* account (rated DefaultElo): that game's handle_game_end writes both
\* ratings (lines 1026-1028) and record_game_win the counters (line 1033).
PriorLoss ==
    LET r == SettleDecisive(DefaultElo, elo["B"]) IN
    /\ gRecord = "new"
    /\ r[2] # elo["B"]
    /\ elo' = [elo EXCEPT !["B"] = r[2]]
    /\ losses' = [losses EXCEPT !["B"] = @ + 1]
    /\ UNCHANGED <<gRecord, recElo, websocket, ws, inbox, wins, draws>>
    /\ UNCHANGED notEnd

\* matchmaking.py lines 151-163, 214-239: _create_game reads both players'
\* ratings into the record and stores it.
StartGame ==
    /\ gRecord = "new"
    /\ gRecord' = "registered"
    /\ recElo' = [col \in Colors |-> elo[account(col)]]
    /\ UNCHANGED <<elo, websocket, ws, inbox, wins, losses, draws>>
    /\ UNCHANGED notEnd

\* on_ws_connected lines 612-662 with the session's game in the registry:
\* the connection takes the player's slot and is sent game_start.
on_ws_connected(c) ==
    /\ ws[c].pc = "new"
    /\ gRecord = "registered"
    /\ websocket' = [websocket EXCEPT ![player_color(c)] = c]
    /\ inbox' = [inbox EXCEPT ![c] = Append(@, Msg("game_start", None, None))]
    /\ ws' = [ws EXCEPT ![c].pc = "open"]
    /\ UNCHANGED <<elo, gRecord, recElo, wins, losses, draws>>
    /\ UNCHANGED notEnd

\* on_ws_connected lines 622-632: no game of the session in the registry.
on_ws_connected_no_game(c) ==
    /\ ws[c].pc = "new"
    /\ gRecord = "popped"
    /\ inbox' = [inbox EXCEPT ![c] = Append(@, Msg("error", None, None))]
    /\ ws' = [ws EXCEPT ![c].pc = "closed"]
    /\ UNCHANGED <<elo, gRecord, recElo, websocket, wins, losses, draws>>
    /\ UNCHANGED notEnd

\* on_ws_closed lines 1061-1085: with the game in the registry, a slot that
\* holds this connection is cleared; nothing is sent.
on_ws_closed(c) ==
    /\ ws[c].pc = "open"
    /\ ws' = [ws EXCEPT ![c].pc = "closed"]
    /\ websocket' =
          IF gRecord = "registered"
          THEN [col \in Colors |->
                   IF websocket[col] = c THEN None ELSE websocket[col]]
          ELSE websocket
    /\ UNCHANGED <<elo, gRecord, recElo, inbox, wins, losses, draws>>
    /\ UNCHANGED notEnd

\* on_ws_message lines 733-739, 773-774 and handle_ws_resign lines 893-899:
\* the sender's opponent is the winner.
handle_ws_resign(c) ==
    /\ ws[c].pc = "open"
    /\ gRecord = "registered"
    /\ ws' = [ws EXCEPT ![c] = [pc |-> "elo1", reason |-> "resignation",
                                winner_color |-> Opposite(player_color(c))]]
    /\ UNCHANGED <<elo, gRecord, recElo, websocket, inbox, wins, losses, draws>>
    /\ UNCHANGED notEnd

\* on_ws_message lines 777-778 and handle_ws_draw_accept line 925.
handle_ws_draw_accept(c) ==
    /\ ws[c].pc = "open"
    /\ gRecord = "registered"
    /\ ws' = [ws EXCEPT ![c] = [pc |-> "elo1", reason |-> "draw",
                                winner_color |-> None]]
    /\ UNCHANGED <<elo, gRecord, recElo, websocket, inbox, wins, losses, draws>>
    /\ UNCHANGED notEnd

\* handle_ws_move lines 849-855: the engine's reply to the sender's move
\* names a winner (the mover, by checkmate).
handle_ws_move_terminal(c) ==
    /\ ws[c].pc = "open"
    /\ gRecord = "registered"
    /\ ws' = [ws EXCEPT ![c] = [pc |-> "elo1", reason |-> "checkmate",
                                winner_color |-> player_color(c)]]
    /\ UNCHANGED <<elo, gRecord, recElo, websocket, inbox, wins, losses, draws>>
    /\ UNCHANGED notEnd

\* handle_game_end lines 1019, 1037-1039: the rating change, computed from
\* the ratings in the record.  Decisive: the winner's gain; draw: player1's.
game_end_delta(reason, winner_color) ==
    IF Decisive(reason)
    THEN elo_delta_win(recElo[winner_color], recElo[Opposite(winner_color)])
    ELSE elo_delta_draw(recElo["white"], recElo["black"])

\* The colour whose rating is written first (lines 1027, 1046) and its new
\* rating.
first_color(reason, winner_color) ==
    IF Decisive(reason) THEN winner_color ELSE "white"

\* handle_game_end lines 1027, 1046: the first update_player_elo.  A refused
\* value (update_player_elo line 57) is not written; in the decisive branch
\* the refusal raises (line 1030) and the handler returns from line 1057.
GameEndElo1(c) ==
    LET col == first_color(ws[c].reason, ws[c].winner_color)
        new_elo == recElo[col] + game_end_delta(ws[c].reason, ws[c].winner_color)
    IN /\ ws[c].pc = "elo1"
       /\ elo' = IF valid_elo(new_elo)
                 THEN [elo EXCEPT ![account(col)] = new_elo] ELSE elo
       /\ ws' = [ws EXCEPT ![c].pc =
                    IF valid_elo(new_elo) \/ ~Decisive(ws[c].reason)
                    THEN "elo2" ELSE "open"]
       /\ UNCHANGED <<gRecord, recElo, websocket, inbox, wins, losses, draws>>
       /\ UNCHANGED notEnd

\* handle_game_end lines 1028, 1047: the second update_player_elo.
GameEndElo2(c) ==
    LET col == Opposite(first_color(ws[c].reason, ws[c].winner_color))
        new_elo == recElo[col] - game_end_delta(ws[c].reason, ws[c].winner_color)
    IN /\ ws[c].pc = "elo2"
       /\ elo' = IF valid_elo(new_elo)
                 THEN [elo EXCEPT ![account(col)] = new_elo] ELSE elo
       /\ ws' = [ws EXCEPT ![c].pc =
                    IF valid_elo(new_elo) \/ ~Decisive(ws[c].reason)
                    THEN "record" ELSE "open"]
       /\ UNCHANGED <<gRecord, recElo, websocket, inbox, wins, losses, draws>>
       /\ UNCHANGED notEnd

\* handle_game_end lines 1033, 1048: record_game_win or record_game_draw.
GameEndRecord(c) ==
    LET w == account(ws[c].winner_color)
        l == account(Opposite(ws[c].winner_color))
    IN /\ ws[c].pc = "record"
       /\ IF Decisive(ws[c].reason)
          THEN /\ wins' = [wins EXCEPT ![w] = @ + 1]
               /\ losses' = [losses EXCEPT ![l] = @ + 1]
               /\ UNCHANGED draws
          ELSE /\ draws' = [u \in Accounts |-> draws[u] + 1]
               /\ UNCHANGED <<wins, losses>>
       /\ ws' = [ws EXCEPT ![c].pc = "notify"]
       /\ UNCHANGED <<elo, gRecord, recElo, websocket, inbox>>
       /\ UNCHANGED notEnd

\* handle_game_end lines 1051-1054: send_game_over to the filled slots, then
\* the record is popped.
GameEndNotify(c) ==
    /\ ws[c].pc = "notify"
    /\ inbox' = SendToSlots(Msg("game_over",
                                IF Decisive(ws[c].reason)
                                THEN ws[c].winner_color ELSE "draw",
                                ws[c].reason))
    /\ gRecord' = "popped"
    /\ ws' = [ws EXCEPT ![c].pc = IF ws[c].reason = "draw"
                                  THEN "accepted" ELSE "open"]
    /\ UNCHANGED <<elo, recElo, websocket, wins, losses, draws>>
    /\ UNCHANGED notEnd

\* handle_ws_draw_accept lines 928-933: draw_accepted to the filled slots.
DrawAccepted(c) ==
    /\ ws[c].pc = "accepted"
    /\ inbox' = SendToSlots(Msg("draw_accepted", None, None))
    /\ ws' = [ws EXCEPT ![c].pc = "open"]
    /\ UNCHANGED <<elo, gRecord, recElo, websocket, wins, losses, draws>>
    /\ UNCHANGED notEnd

\* ---- draw negotiation (server.py lines 903-974) ----
MaxDrawMsgs == 3       \* draw-negotiation messages handled in one run

DrawInit ==
    /\ offerBy = None
    /\ drawMsgs = 0

\* The three handlers compute the same receiver (lines 907-911, 942-946,
\* 959-963): the entry of the player who is not the sender, and send to the
\* connection in its slot if there is one.
SendToOpponent(c, type) ==
    LET to == websocket[Opposite(player_color(c))]
    IN [d \in EndConns |->
          IF d = to THEN Append(inbox[d], Msg(type, None, None)) ELSE inbox[d]]

\* on_ws_message lines 733-739 let a message through when the game is in the
\* registry; no handler looks at the game's status or at earlier messages.
DrawMessage(c, type) ==
    /\ ws[c].pc = "open"
    /\ gRecord = "registered"
    /\ drawMsgs < MaxDrawMsgs
    /\ drawMsgs' = drawMsgs + 1
    /\ inbox' = SendToOpponent(c, type)
    /\ UNCHANGED <<gRecord, recElo, websocket, ws, wins, losses, draws>>
    /\ UNCHANGED notDraw

\* handle_ws_draw_offer lines 903-919.
handle_ws_draw_offer(c) ==
    /\ DrawMessage(c, "draw_offered")
    /\ offerBy' = player_color(c)

\* handle_ws_draw_decline lines 938-954.
handle_ws_draw_decline(c) ==
    /\ DrawMessage(c, "draw_declined")
    /\ offerBy' = None

handle_ws_draw_cancel_to_sender(c) ==
    /\ ws[c].pc = "open"
    /\ gRecord = "registered"
    /\ drawMsgs < MaxDrawMsgs
    /\ drawMsgs' = drawMsgs + 1
    /\ inbox' = [d \in EndConns |->
                   IF d = websocket[player_color(c)]
                   THEN Append(inbox[d], Msg("draw_cancelled", None, None))
                   ELSE inbox[d]]
    /\ offerBy' = None
    /\ UNCHANGED <<gRecord, recElo, websocket, ws, wins, losses, draws>>
    /\ UNCHANGED notDraw

\* handle_ws_draw_cancel lines 956-974.
handle_ws_draw_cancel(c) ==
    /\ DrawMessage(c, "draw_cancelled")
    /\ offerBy' = None

\* Game G with its connections and the draw negotiation.
DrawNext ==
    \/ StartGame
    \/ \E c \in EndConns : on_ws_connected(c)
    \/ \E c \in EndConns : on_ws_closed(c)
    \/ \E c \in EndConns : handle_ws_draw_offer(c)
    \/ \E c \in EndConns : handle_ws_draw_decline(c)
    \/ \E c \in EndConns : handle_ws_draw_cancel(c)

\* Game G with its connections, the draw negotiation and the acceptance of
\* a draw with the settlement it starts.
AcceptNext ==
    \/ StartGame
    \/ \E c \in EndConns : on_ws_connected(c)
    \/ \E c \in EndConns : on_ws_closed(c)
    \/ \E c \in EndConns : handle_ws_draw_offer(c)
    \/ \E c \in EndConns : handle_ws_draw_decline(c)
    \/ \E c \in EndConns : handle_ws_draw_cancel(c)
    \/ \E c \in EndConns : handle_ws_draw_accept(c)
    \/ \E c \in EndConns : GameEndElo1(c)
    \/ \E c \in EndConns : GameEndElo2(c)
    \/ \E c \in EndConns : GameEndRecord(c)
    \/ \E c \in EndConns : GameEndNotify(c)
    \/ \E c \in EndConns : DrawAccepted(c)

InGameEnd(c) == ws[c].pc \in {"elo1", "elo2", "record", "notify"}

EndNext ==
    \/ PriorLoss
    \/ StartGame
    \/ \E c \in EndConns : on_ws_connected(c)
    \/ \E c \in EndConns : on_ws_connected_no_game(c)
    \/ \E c \in EndConns : on_ws_closed(c)
    \/ \E c \in EndConns : handle_ws_resign(c)
    \/ \E c \in EndConns : handle_ws_draw_accept(c)
    \/ \E c \in EndConns : handle_ws_move_terminal(c)
    \/ \E c \in EndConns : GameEndElo1(c)
    \/ \E c \in EndConns : GameEndElo2(c)
    \/ \E c \in EndConns : GameEndRecord(c)
    \/ \E c \in EndConns : GameEndNotify(c)
    \/ \E c \in EndConns : DrawAccepted(c)

(***************************************************************************)
(* THE BACKGROUND LOOPS AND THE SHUTDOWN LATCH                             *)
(***************************************************************************)
CleanupInit == clPc = "top"

\* cleanup_sessions_loop (auth/session.py) line 27: the loop test.
cleanup_loop_test ==
    /\ clPc = "top"
    /\ clPc' = IF should_shutdown THEN "exited" ELSE "cleanup"
    /\ UNCHANGED <<now, sessVars>>
    /\ UNCHANGED notCleanup

\* Line 29: cleanup_expired_sessions (SessionManager.py lines 274-286)
\* returns.
cleanup_loop_run ==
    LET cutoff_time == now - SessionTimeout
        hit == {sid \in Sids : sessRows[sid] # NoRow
                                /\ sessRows[sid].last_active < cutoff_time}
    IN
    /\ clPc = "cleanup"
    /\ sessRows' = [sid \in Sids |-> IF sid \in hit THEN NoRow ELSE sessRows[sid]]
    /\ sessCache' = IF hit # {} THEN NoSessCache ELSE sessCache
    /\ userCache' = IF hit # {} THEN NoUserCache ELSE userCache
    /\ clPc' = "wait"
    /\ UNCHANGED <<now, nextSid, userName, rd, pw>>
    /\ UNCHANGED notCleanup

\* Lines 29, 33-35: cleanup_expired_sessions raises; the handler prints,
\* sleeps 1 s and the loop goes back to its test.
cleanup_loop_raises ==
    /\ clPc = "cleanup"
    /\ clPc' = "top"
    /\ UNCHANGED <<now, sessVars>>
    /\ UNCHANGED notCleanup

\* Lines 31-32: wait_for_shutdown(timeout=60) returns True with the latch
\* raised (break), False after the 60 s.
cleanup_loop_wait ==
    /\ clPc = "wait"
    /\ clPc' = IF should_shutdown THEN "exited" ELSE "top"
    /\ UNCHANGED <<now, sessVars>>
    /\ UNCHANGED notCleanup

\* The steps of each loop's thread.
MatchmakingStep ==
    \/ poll_queue
    \/ poll_queue_empty
    \/ purge_stale
    \/ pop_pair
    \/ validate_player_sessions
    \/ \E g \in GameIds : create_game(g)
    \/ create_game_failed
    \/ create_games_done
    \/ matchmaking_loop_exit

SweeperStep ==
    \/ SweepBegin
    \/ SweepExamine
    \/ SweepSleep
    \/ instance_thread_handler_exit

CleanupStep ==
    \/ cleanup_loop_test
    \/ cleanup_loop_run
    \/ cleanup_loop_raises
    \/ cleanup_loop_wait

WorkerStep ==
    \/ worker_loop_test
    \/ worker_get
    \/ worker_get_empty
    \/ \E outcome \in EngineOutcomes : worker_process(outcome)
    \/ worker_task_done

\* The players who search while the loops are watched.
LoopPlayers == {"alice", "bob"}

\* One task is submitted to the instance.
submit_one ==
    /\ nextTask = 1
    /\ submit_put

\* The four loops, the requests that feed two of them, and the latch.
LoopsNext ==
    \/ signal_shutdown
    \/ \E p \in LoopPlayers : handle_search(p)
    \/ submit_one
    \/ poll_queue
    \/ poll_queue_empty
    \/ purge_stale
    \/ pop_pair
    \/ validate_player_sessions
    \/ \E g \in GameIds : create_game(g)
    \/ create_game_failed
    \/ create_games_done
    \/ matchmaking_loop_exit
    \/ SweepBegin
    \/ SweepExamine
    \/ SweepSleep
    \/ instance_thread_handler_exit
    \/ cleanup_loop_test
    \/ cleanup_loop_run
    \/ cleanup_loop_raises
    \/ cleanup_loop_wait
    \/ worker_loop_test
    \/ worker_get
    \/ worker_get_empty
    \/ \E outcome \in EngineOutcomes : worker_process(outcome)
    \/ worker_task_done

Init ==
    /\ now = 0
    /\ EndInit
    /\ StateInit
    /\ MmInit
    /\ GameInit
    /\ EloInit
    /\ SessInit
    /\ PoolInit
    /\ SweepInit
    /\ DbInit
    /\ UsersInit
    /\ ProbeInit
    /\ WorkerInit
    /\ DrawInit
    /\ CleanupInit
    /\ LockInit
    /\ ReadInit
    /\ PipesInit
    /\ ShutInit
    /\ CancelInit

SpecGame == Init /\ [][GameNext]_vars

\* C1: every accepted move submission leaves current_turn different from the
\* turn it was received in and the move list exactly one longer than it was
\* then, with the move appended last; and no move is applied for a sender
\* whose colour is not current_turn.
C1_AcceptedMoveFlipsTurn ==
    [][\A c \in Conns :
          MoveAccepted(c) =>
             /\ player_color(c) = current_turn
             /\ current_turn' # wsReq[c].pre_turn
             /\ Len(moves') = wsReq[c].pre_len + 1
             /\ moves' = Append(moves, wsReq[c].move)]_vars

SpecElo == Init /\ [][EloNext]_vars

\* C5: every settlement (decisive or draw) leaves the sum of the two players'
\* stored ratings within 1 of what it was before the settlement.
C5_SettlementPreservesSum ==
    Abs(eloDiff) <= 1

SpecSession == Init /\ [][SessNext]_vars

\* C2: a get_session call on a stored session (answered from the cache, or
\* from the row it read when no write has changed that row since) returns a
\* record if and only if now - last_active <= session_timeout; when the
\* session is expired the call returns NoRow and the row is gone from the
\* table afterwards.
C2_GetReturnsIffUnexpired ==
    [][\A t \in Readers, sid \in Sids :
          (GetHit(t, sid)
             \/ (GetFinish(t) /\ rd[t].sid = sid /\ rd[t].row = sessRows[sid]))
          /\ sessRows[sid] # NoRow
          => IF Expired(sessRows[sid])
             THEN rd'[t].res = NoRow /\ sessRows'[sid] = NoRow
             ELSE rd'[t].res # NoRow]_vars

\* C7: a get_session call that starts after a rename has completed reports
\* the stored (new) username for every unexpired session of the renamed
\* user, and a rename changes no row of another user.
C7_RenameVisibleOnNextGet ==
    [][/\ \A t \in Readers, sid \in Sids :
            GetHit(t, sid) /\ sessRows[sid] # NoRow /\ rd'[t].res # NoRow
            => rd'[t].res.username = sessRows[sid].username
       /\ \A u \in UserIds : \A new \in NamesOf(u) :
            Rename(u, new)
            => \A sid \in Sids :
                  sessRows[sid] # NoRow /\ sessRows[sid].user_id # u
                  => sessRows'[sid] = sessRows[sid]]_vars

SpecPassword == Init /\ [][PwNext]_vars

\* C8: when a password change requested from session s of user u completes,
\* no other session of u is left in the sessions table and s is stored and
\* unexpired.
C8_PasswordChangeLeavesOnlyCurrent ==
    [][PwFinish =>
          /\ \A sid \in Sids \ {pw.sid} :
                sessRows'[sid] = NoRow \/ sessRows'[sid].user_id # pw.user
          /\ sessRows'[pw.sid] # NoRow
          /\ now - sessRows'[pw.sid].last_active <= SessionTimeout]_vars

SpecPool == Init /\ [][PoolNext]_vars
SpecPoolDriven == Init /\ [][PoolDrivenNext]_vars
SpecSubmit == Init /\ [][SubmitNext]_vars

\* C3: once the pool is constructed and while should_shutdown is false, the
\* number of pooled instances is at least min_instances and at most
\* max_instances.
C3_PoolSizeWithinBounds ==
    ctorLeft = 0 /\ ~should_shutdown
    => MinInstances <= Len(instances) /\ Len(instances) <= MaxInstances

\* C9: an auto_scale call that finds N < max_instances instances and the
\* total queue size at or above 0.9 * N * queue_size for more than 5 s adds
\* exactly one instance and resets queue_full_since; no call leaves more than
\* max_instances instances.
C9_ScaleUpAddsOneInstance ==
    [][AutoScale =>
          /\ Len(instances') <= MaxInstances
          /\ instances # <<>> /\ Len(instances) < MaxInstances /\ scale_up_due
             => /\ Len(instances') = Len(instances) + 1
                /\ queue_full_since' = NoTime]_vars

\* C10: an auto_scale call that finds N > min_instances instances and the
\* total queue size 0 for more than 10 s closes exactly one instance, the
\* one with the smallest last_used, resets queue_empty_since, and leaves at
\* least min_instances instances.
C10_ScaleDownClosesOldest ==
    [][AutoScale /\ scale_down_due =>
          /\ instances' = SelectSeq(instances, LAMBDA x : x # oldest_id)
          /\ queue_empty_since' = NoTime
          /\ Len(instances') >= MinInstances]_vars

\* The step of submit_task that ends the selection of thread s.
Selects(s) == (SubmitBegin(s) \/ SubmitScan(s)) /\ sub'[s].pc = "put"

\* C4: when submit_task has made its selection on a non-empty pool, the
\* instance selected has a queue size that is minimal among the pooled
\* instances at that moment, and it has the lowest id of those with the
\* minimal queue size.
C4_SelectsMinimalQueue ==
    [][\A s \in Submitters :
          Selects(s) =>
             \A i \in Pooled :
                /\ qsize[sub'[s].best] <= qsize[i]
                /\ qsize[i] = qsize[sub'[s].best] => sub'[s].best <= i]_vars

\* C4 (amended): the instance selected is the one whose queue size, as read
\* by the scan under the pool lock, is the smallest of the sizes read, and
\* it has the lowest id of those read with that smallest size.
C4_SelectsMinimalRead ==
    [][\A s \in Submitters :
          Selects(s) =>
             LET r == sub'[s].seen IN
             /\ Len(r) = Len(instances)
             /\ \E k \in 1..Len(r) :
                   /\ instances[k] = sub'[s].best
                   /\ \A j \in 1..Len(r) : r[k] <= r[j]
                   /\ \A j \in 1..(k - 1) : r[j] > r[k]]_vars

\* A selection among two instances read with the same size has been made,
\* and the queue of the selected one is no longer the shortest.
C4_Witness ==
    \E s \in Submitters :
       /\ sub[s].pc = "put"
       /\ Len(sub[s].seen) = 2
       /\ sub[s].seen[1] = sub[s].seen[2]
       /\ sub[s].best = instances[1]
       /\ qsize[instances[1]] > qsize[instances[2]]

SpecSweep == Init /\ [][SweepNext]_vars
SpecState == Init /\ [][StateNext]_vars
SpecMm == Init /\ [][MmNext]_vars
SpecEnd == Init /\ [][EndNext]_vars

\* C6: when an iteration of the sweeper loop ends, no game that the
\* iteration found finished or inactive for more than 1800 s is in the
\* registry any more.
C6_SweptAfterNextTick ==
    [][swPc # "sleep" /\ swPc' = "sleep"
       => \A g \in swFound : ~\E i \in 1..Len(ACTIVE_GAMES') : ACTIVE_GAMES'[i] = g]_vars

\* C11: every submit_task call returns.  In finite form: no call is ever
\* waiting for the pool lock while the thread that holds the lock is itself
\* waiting for it, a wait that never ends and leaves the call blocked for
\* good.
C11_SubmitTaskReturns ==
    \A s \in Submitters :
       sub[s].pc = "lock"
       => ~(poolLock = "auto_scale" /\ asPc \in {"spawn", "close"})

\* C12: a move submission that is rejected (not the sender's turn, or the
\* engine answered other than "valid" or not at all) leaves fen, moves,
\* legal_moves, current_turn and last_move_at as they were and sends a
\* message of type error to the sender.
C12_RejectedMoveLeavesGame ==
    [][\A c \in Conns :
          MoveNotYourTurn(c) \/ MoveRejected(c)
          => /\ fen' = fen
             /\ moves' = moves
             /\ legal_moves' = legal_moves
             /\ current_turn' = current_turn
             /\ last_move_at' = last_move_at
             /\ wsSent'[c] = "error"]_vars

\* A submission has been rejected after a move was accepted at a later time
\* than the game's creation, and another submission is with the engine.
C12_Witness ==
    /\ Len(moves) > 0
    /\ last_move_at > 0
    /\ \E c \in Conns : wsSent[c] = "error" /\ wsPc[c] = "idle"
    /\ \E c \in Conns : wsPc[c] = "engine"

\* C13: every accepted move was validated against the position and turn that
\* the previously accepted move left: the fen its engine request carried is
\* the game's fen, and the turn it was checked against is the game's turn,
\* at the moment it is applied.
C13_AcceptedMovesSerialized ==
    [][\A c \in Conns :
          MoveAccepted(c)
          => wsReq[c].fen = fen /\ wsReq[c].pre_turn = current_turn]_vars

\* ---------------------------------------------------------------------
\* C14: after any sequence of signal_error calls, get_error_message (which
\* runs with the lock, hence between calls) returns the message of the
\* first call; later calls do not overwrite it.
C14_FirstErrorMessageKept ==
    (get_error_message_enabled /\ errorCalls # <<>>)
    => error_message = errorCalls[1]

\* C15: whenever a thread has read has_error() = true and then reads
\* should_shutdown(), it reads true; and no step sets either latch back to
\* false.
C15_ErrorImpliesShutdown ==
    [][/\ (obs'.pc = "done" /\ obs'.err) => obs'.shut
       /\ should_shutdown => should_shutdown'
       /\ error_event => error_event']_vars

\* ---------------------------------------------------------------------
\* C16: once a session that was searching has sent POST /home/cancel (and
\* has not searched again), its candidate is neither on the inbound queue
\* nor in the loop's waiting list, so it cannot be paired any more.
C16_CancelledNotWaiting ==
    \A p \in MmPlayers :
       searchState[p] = "cancelled" => ~InQueue(p) /\ ~Waiting(p)

\* C17: no user is a player of two games of the registry at once.
C17_OneActiveGamePerUser ==
    \A i, j \in 1..Len(ACTIVE_GAMES) :
       i # j =>
          \A k, l \in 1..2 :
             gamePlayers[ACTIVE_GAMES[i]][k] # gamePlayers[ACTIVE_GAMES[j]][l]

\* ---------------------------------------------------------------------
\* C18: when the connection held in a player's slot closes while the game
\* is in the registry, the slot is cleared and (the status being ongoing)
\* an attached opponent is sent opponent_disconnected.
C18_CloseNotifiesOpponent ==
    [][\A c \in EndConns :
          (on_ws_closed(c) /\ gRecord = "registered"
             /\ websocket[player_color(c)] = c)
          => /\ websocket'[player_color(c)] = None
             /\ \A d \in EndConns :
                   websocket[Opposite(player_color(c))] = d
                   => inbox'[d] = Append(inbox[d],
                                         Msg("opponent_disconnected", None, None))]_vars

\* C19: a resign by P, whoever is to move, is settled for the opposite
\* colour with reason "resignation": the settlement runs to its game_over
\* message, which names that winner and reason, and removes the game; it
\* adds exactly 1 to the winner's wins and to the loser's losses; and with
\* both ratings 500 in the record it stores 516 for the winner and 484 for
\* the loser.
C19_ResignSettlesForOpponent ==
    [][\A c \in EndConns :
          LET w == Opposite(player_color(c))
              l == player_color(c)
              resigning == InGameEnd(c) /\ ws[c].reason = "resignation"
          IN /\ handle_ws_resign(c)
                => ws'[c].reason = "resignation" /\ ws'[c].winner_color = w
             /\ (resigning /\ ws'[c].pc = "open")
                => /\ ws[c].pc = "notify"
                   /\ gRecord' = "popped"
                   /\ inbox' = SendToSlots(Msg("game_over", w, "resignation"))
             /\ (resigning /\ GameEndRecord(c))
                => /\ wins'[account(w)] = wins[account(w)] + 1
                   /\ losses'[account(l)] = losses[account(l)] + 1
             /\ (resigning /\ recElo[w] = 500 /\ recElo[l] = 500)
                => /\ GameEndElo1(c) => elo'[account(w)] = 516
                   /\ GameEndElo2(c) => elo'[account(l)] = 484]_vars

\* C20: a handler leaves handle_game_end only by the step that sends
\* game_over to every filled slot and pops the record; and a rating or a
\* counter changes only in a step of a settlement.
C20_SettlementEndsWithGameOver ==
    [][/\ \A c \in EndConns :
             (InGameEnd(c) /\ ~InGameEnd(c)')
             => /\ GameEndNotify(c)
                /\ gRecord' = "popped"
                /\ \A d \in EndConns :
                      (\E col \in Colors : websocket[col] = d)
                      => /\ Len(inbox'[d]) = Len(inbox[d]) + 1
                         /\ inbox'[d][Len(inbox'[d])].type = "game_over"
       /\ <<elo, wins, losses, draws>>' # <<elo, wins, losses, draws>>
             => \/ PriorLoss
                \/ \E c \in EndConns : InGameEnd(c) /\ ws'[c] # ws[c]]_vars

\* ---------------------------------------------------------------------
\* C21: the waiting list is kept in admission order, the pair popped for a
\* game is its two oldest entries (no entry left behind was admitted before
\* either), and a created game has exactly the popped pair as its players,
\* the older one as player1.
C21_PairingIsFifo ==
    [][/\ \A i, j \in 1..Len(waiting_players') :
             i < j => waiting_players'[i][2] <= waiting_players'[j][2]
       /\ pop_pair
             => /\ mmPair' = <<waiting_players[1], waiting_players[2]>>
                /\ mmPair'[1][2] <= mmPair'[2][2]
                /\ \A i \in 1..Len(waiting_players') :
                      mmPair'[2][2] <= waiting_players'[i][2]
       /\ \A g \in GameIds :
             create_game(g)
             => gamePlayers'[g] = <<mmPair[1][1], mmPair[2][1]>>]_vars

\* A second game has been created from a pair admitted at different times.
C21_Witness ==
    /\ Len(ACTIVE_GAMES) = 2
    /\ gamePlayers[2] # <<>>
    /\ mmPair = <<>>
    /\ gameLastMove[2] > 0
    /\ gamePlayers[1] # gamePlayers[2]

\* ---------------------------------------------------------------------
\* C22: after every step of the matchmaking loop the waiting list holds no
\* user_id twice and the deduplication set is exactly the set of user_ids
\* in the list.
C22_WaitingListDeduplicated ==
    /\ \A i, j \in 1..Len(waiting_players) :
          i # j => waiting_players[i][1] # waiting_players[j][1]
    /\ waiting_player_ids = IdsOf(waiting_players)

\* alice has searched twice at time 0 and nobody else has: her second
\* candidate has been polled and dropped as a duplicate.
C22_Witness ==
    /\ searches = 2
    /\ now = 0
    /\ ACTIVE_GAMES = <<>>
    /\ MATCHMAKING_QUEUE = <<>>
    /\ mmPc = "stale"
    /\ waiting_players = << <<"alice", 0>> >>
    /\ waiting_player_ids = {"alice"}
    /\ searchState = [p \in MmPlayers |->
                         IF p = "alice" THEN "searching" ELSE "none"]
    /\ \A p \in MmPlayers : sessionValid[p]

\* ---------------------------------------------------------------------
\* C23: the validation of a popped pair succeeds exactly when the session
\* store resolves both sessions; a game is created only after a successful
\* validation; after a failed one the loop's next step leaves both players
\* out of the waiting list and the deduplication set, creates no game and
\* returns to the pairing test.
C23_OnlyValidatedPairsPlay ==
    [][/\ validate_player_sessions
             => (mmValid' <=> \A k \in 1..2 : sessionValid[mmPair[k][1]])
       /\ \A g \in GameIds : create_game(g) => mmValid
       /\ (mmPc = "decide" /\ ~mmValid /\ mmPc' # mmPc)
             => /\ mmPc' = "create"
                /\ waiting_players' = waiting_players
                /\ waiting_player_ids' = waiting_player_ids
                /\ \A k \in 1..2 : /\ ~(mmPair[k][1] \in waiting_player_ids')
                                   /\ ~(mmPair[k][1] \in IdsOf(waiting_players'))
                /\ ACTIVE_GAMES' = ACTIVE_GAMES
                /\ gamePlayers' = gamePlayers]_vars

\* Two players searched at time 0, one of them logged out, and the pair has
\* been discarded: nobody waits, nobody plays.
C23_Witness ==
    /\ searches = 2
    /\ now = 0
    /\ ACTIVE_GAMES = <<>>
    /\ MATCHMAKING_QUEUE = <<>>
    /\ waiting_players = <<>>
    /\ waiting_player_ids = {}
    /\ mmPc = "create"
    /\ mmPair = <<>>
    /\ ~mmValid
    /\ searchState = [p \in MmPlayers |-> "none"]
    /\ Cardinality({p \in MmPlayers : ~sessionValid[p]}) = 1

\* ---------------------------------------------------------------------
SpecSessionDb == Init /\ [][SessDbNext]_vars

\* C24: no SessionManager operation raises into its caller when its database
\* statement fails.
C24_NoOperationRaises ==
    raised = None

\* ---------------------------------------------------------------------
SpecUsers == Init /\ [][UsersNext]_vars

\* C26: no user_id is given to two registrations.
C26_UserIdNeverReused ==
    \A id \in RowIds : issued[id] <= 1

\* ---------------------------------------------------------------------
\* C25: a get_session call that starts when every earlier write has completed
\* and is answered without reading the table returns what the table holds
\* for that session: the stored row, or NoRow if no row is stored.
C25_NoReadPredatesAWrite ==
    [][\A t \in Readers, sid \in Sids :
          GetHit(t, sid) => rd'[t].res = sessRows[sid]]_vars

\* ---------------------------------------------------------------------
SpecProbe == Init /\ [][ProbeNext]_vars

\* C27: a subprocess is in the pool only if it answered the probe with
\* "valid", and every subprocess started by a spawn that did not add it to
\* the pool has been killed; such a spawn reports failure.
C27_FailedProbeKillsProcess ==
    /\ running \subseteq pooledProc
    /\ Cardinality(pooledProc) = Len(instances)

\* ---------------------------------------------------------------------
SpecWorker == Init /\ [][WorkerNext]_vars

\* C28: the replies of one instance are delivered in the order in which their
\* tasks were enqueued (tasks are numbered as they are enqueued), and every
\* task taken from the queue has exactly one reply once the worker is past
\* its processing and exactly one task_done once the worker has left it;
\* a task still queued has neither.
C28_RepliesInSubmissionOrder ==
    /\ \A i, j \in 1..Len(replyLog) : i < j => replyLog[i] < replyLog[j]
    /\ \A k \in Tasks :
          LET queued == \E i \in 1..Len(task_queue) : task_queue[i] = k
              taken == k < nextTask /\ ~queued
          IN /\ Len(response_queue[k])
                   = (IF taken /\ ~(k = wkTask /\ wkPc = "process")
                      THEN 1 ELSE 0)
             /\ task_done[k] = (IF taken /\ k # wkTask THEN 1 ELSE 0)

\* Three tasks answered, the first with an error, while a fourth waits.
C28_Witness ==
    /\ replyLog = <<1, 2, 3>>
    /\ response_queue[1] = <<"error">>
    /\ response_queue[2] = <<"success">>
    /\ task_queue = <<4>>
    /\ task_done[3] = 1

\* ---------------------------------------------------------------------
SpecDraw == Init /\ [][DrawNext]_vars

\* C29 as stated: draw_offered goes to the sender's opponent; draw_declined
\* and draw_cancelled go to the player whose offer is outstanding (to the
\* connection attached for that player).
C29_DrawMessagesReachOfferer ==
    [][\A c \in EndConns :
          LET GoesTo(col, type) ==
                  websocket[col] # None
                  => inbox'[websocket[col]]
                        = Append(inbox[websocket[col]], Msg(type, None, None))
          IN /\ handle_ws_draw_offer(c)
                   => GoesTo(Opposite(player_color(c)), "draw_offered")
             /\ handle_ws_draw_decline(c) /\ offerBy # None
                   => GoesTo(offerBy, "draw_declined")
             /\ handle_ws_draw_cancel(c) /\ offerBy # None
                   => GoesTo(offerBy, "draw_cancelled")]_vars

\* C29 amended: each of the three messages sent by P is answered with one
\* notification (draw_offered, draw_declined, draw_cancelled) to the
\* connection attached for P's opponent, if there is one, and with nothing to
\* any other connection; so a decline by the player who received the offer
\* reaches the offerer, and a cancel by the offerer reaches the other player.
C29_DrawMessagesReachOpponent ==
    [][\A c \in EndConns :
          LET opp == websocket[Opposite(player_color(c))]
              Only(type) ==
                  \A d \in EndConns :
                     inbox'[d] = IF d = opp
                                 THEN Append(inbox[d], Msg(type, None, None))
                                 ELSE inbox[d]
          IN /\ handle_ws_draw_offer(c) => Only("draw_offered")
             /\ handle_ws_draw_decline(c) => Only("draw_declined")
             /\ handle_ws_draw_cancel(c) => Only("draw_cancelled")
             /\ handle_ws_draw_decline(c) /\ offerBy = Opposite(player_color(c))
                   /\ websocket[offerBy] # None
                   => inbox'[websocket[offerBy]] # inbox[websocket[offerBy]]
             /\ handle_ws_draw_cancel(c) /\ offerBy = player_color(c)
                   /\ websocket[Opposite(offerBy)] # None
                   => /\ inbox'[websocket[Opposite(offerBy)]]
                            # inbox[websocket[Opposite(offerBy)]]
                      /\ websocket[offerBy] # None
                            => inbox'[websocket[offerBy]]
                                  = inbox[websocket[offerBy]]]_vars

\* White offered and then withdrew the offer with both players attached:
\* black was told both times, white nothing.
C29_Witness ==
    /\ inbox["b1"] = <<Msg("game_start", None, None),
                       Msg("draw_offered", None, None),
                       Msg("draw_cancelled", None, None)>>
    /\ inbox["w1"] = <<Msg("game_start", None, None)>>
    /\ websocket["white"] = "w1"
    /\ websocket["black"] = "b1"
    /\ offerBy = None
    /\ drawMsgs = 2

\* ---------------------------------------------------------------------
\* Every thread that can take a step eventually takes one.
SpecLoopsFair ==
    /\ Init
    /\ [][LoopsNext]_vars
    /\ WF_vars(MatchmakingStep)
    /\ WF_vars(SweeperStep)
    /\ WF_vars(CleanupStep)
    /\ WF_vars(WorkerStep)

\* C30: once the shutdown latch is raised, the engine worker, the matchmaking
\* loop, the auto-scale/sweeper loop and the session-cleanup loop all leave
\* their loops.
C30_LoopsExitAfterShutdown ==
    should_shutdown ~> /\ wkPc = "exited"
                       /\ mmPc = "exited"
                       /\ swPc = "exited"
                       /\ clPc = "exited"

\* ---------------------------------------------------------------------
\* C31: every auto_scale call terminates and releases the pool lock.  In
\* finite form: the thread running auto_scale is never at the call of
\* _spawn_instance or _close_instance, waiting for the pool lock, while it
\* is itself the holder of that lock.
C31_AutoScaleReleasesLock ==
    asPc \in {"spawn", "close"} => poolLock # "auto_scale"

\* ---------------------------------------------------------------------
SpecLock == Init /\ [][LockNext]_vars

\* C32: the pool lock is held only to read or change the instance map: no
\* thread is about to start a subprocess, write the probe, read its reply,
\* or write the exit message and wait for or kill a process, while it holds
\* the pool lock.
C32_NoSubprocessIoUnderLock ==
    /\ spPc \in SubprocessSteps => poolLock # "spawn"
    /\ closePc \in SubprocessSteps => poolLock # "close"

\* ---------------------------------------------------------------------
SpecRead == Init /\ [][ReadNext]_vars

\* C33: at every moment at most one thread is reading the instance's stdout,
\* and it reads for the task the worker is processing: between tasks nobody
\* reads, and during a task only the thread started for that task does.
C33_OneReaderForCurrentTask ==
    /\ Cardinality(readers) <= 1
    /\ readers \subseteq (IF rtPc = "join" THEN {rtTask} ELSE {})

\* ---------------------------------------------------------------------
\* C34: the line delivered as ("success", r) for a task is the line the
\* engine wrote for that task's own request, and the thread reading for a
\* task reads no line written for another task.
C34_ReplyIsForOwnRequest ==
    \A t \in ReadTasks :
        /\ delivered[t].kind = "success" => delivered[t].line = t
        /\ readResult[t] \in {0, t}

\* ---------------------------------------------------------------------
\* C35: game G is settled at most once, whatever the interleaving of
\* resign, accept_draw and a terminal move on its two connections: at most
\* one result of G is ever recorded in the users table, and each connection
\* receives at most one game_over.
C35_GameSettledOnce ==
    /\ wins["A"] + wins["B"] + draws["A"] <= 1
    /\ \A c \in EndConns :
          Cardinality({i \in 1..Len(inbox[c]) : inbox[c][i].type = "game_over"}) <= 1

\* ---------------------------------------------------------------------
SpecAccept == Init /\ [][AcceptNext]_vars

\* C36: an accept_draw sent by P starts the settlement of G as a draw only
\* if P's opponent has an outstanding draw offer; without one the game
\* stays as it is and no rating or counter changes.
C36_AcceptNeedsOpponentsOffer ==
    [][\A c \in EndConns :
          (ws[c].pc = "open" /\ ws'[c].pc = "elo1" /\ ws'[c].reason = "draw")
          => offerBy = Opposite(player_color(c))]_vars

\* ---------------------------------------------------------------------
\* C37: when _create_game fails, both entries go back to the head of the
\* waiting list in their order, with their ids, and _create_games_from_queue
\* then returns: it is not back at its loop test with two or more entries
\* waiting, about to pop the same pair again in the same tick.
C37_FailedCreateEndsTick ==
    [][create_game_failed =>
          /\ SubSeq(waiting_players', 1, 2) = mmPair
          /\ {mmPair[1][1], mmPair[2][1]} \subseteq waiting_player_ids'
          /\ ~(mmPc' = "create" /\ Len(waiting_players') >= 2)]_vars

\* ---------------------------------------------------------------------
SpecPipes == Init /\ [][PipesNext]_vars

\* C38: once the pipes of an instance are closed or broken, its worker
\* detects it and leaves its loop: an iteration that begins after that goes
\* on to exit (and close the instance), not to another poll of the queue;
\* and an instance whose worker has exited is not in the pool.
C38_WorkerLeavesOnClosedPipes ==
    [][/\ (stdio # "open" /\ wkPc = "top" /\ wkPc' # "top") => wkPc' = "exited"
       /\ wkPc' = "exited" => ~inPool']_vars

\* ---------------------------------------------------------------------
SpecShut == Init /\ [][ShutNext]_vars

SpecCancel == Init /\ [][CancelNext]_vars

\* C40: a cancel removes only the caller's entries and leaves the other
\* candidates in their order and single: on the queue no candidate that was
\* put after the cancel began stands before one that was there when it
\* began, and no candidate is on the queue or in temp_queue twice.
C40_CancelKeepsOthersInOrder ==
    LET q == MATCHMAKING_QUEUE
        Old(p) == \E k \in 1..Len(cnBefore) : cnBefore[k] = p
        all == temp_queue \o q
    IN /\ \A i, j \in 1..Len(q) : (i < j /\ Old(q[j])) => Old(q[i])
       /\ \A i, j \in 1..Len(all) : all[i] = all[j] => i = j

====
